---- MODULE Spec2Model ----
(***************************************************************************)
(* A model of the k6 performance-test runner (src/main.js with the         *)
(* validator table of src/validators.js, the global configuration and an   *)
(* endpoint registry).  One iteration of the exported default function is  *)
(* one action: JavaScript runs it to completion inside a virtual user, and *)
(* http.request is a blocking call.                                        *)
(*                                                                         *)
(* Text is modelled character by character (a string is a sequence of      *)
(* one-character strings), so that JSON.stringify, the placeholder         *)
(* replacement and JSON.parse are computed the way the code computes them. *)
(***************************************************************************)
EXTENDS Integers, Sequences, FiniteSets, TLC

(***************************************************************************)
(* JavaScript values.  Every value is a record of the same shape:          *)
(*   t : "str" | "num" | "bool" | "null" | "undef" | "obj" | "arr" | "fn"  *)
(*   s : the characters of a string (or the name of a function)            *)
(*   n : the number, or 1/0 for true/false                                 *)
(*   o : the entries [k |-> key, v |-> value] of an object, in insertion   *)
(*       order; the items of an array (k is empty)                         *)
(***************************************************************************)
Str(chars) == [t |-> "str", s |-> chars, n |-> 0, o |-> <<>>]
Num(k) == [t |-> "num", s |-> <<>>, n |-> k, o |-> <<>>]
Bool(b) == [t |-> "bool", s |-> <<>>, n |-> IF b THEN 1 ELSE 0, o |-> <<>>]
Null == [t |-> "null", s |-> <<>>, n |-> 0, o |-> <<>>]
Undef == [t |-> "undef", s |-> <<>>, n |-> 0, o |-> <<>>]
Obj(entries) == [t |-> "obj", s |-> <<>>, n |-> 0, o |-> entries]
Arr(items) == [t |-> "arr", s |-> <<>>, n |-> 0, o |-> [i \in 1..Len(items) |-> [k |-> <<>>, v |-> items[i]]]]
Fn(name) == [t |-> "fn", s |-> name, n |-> 0, o |-> <<>>]
Entry(key, val) == [k |-> key, v |-> val]

\* JavaScript truthiness (the `!x`, `x || y`, `if (x)` tests of the code).
Truthy(v) ==
    CASE v.t = "str" -> v.s # <<>>
      [] v.t = "num" -> v.n # 0
      [] v.t = "bool" -> v.n = 1
      [] v.t = "null" -> FALSE
      [] v.t = "undef" -> FALSE
      [] OTHER -> TRUE

\* obj[key]: the own property, or undefined.  A property read on a string,
\* number or boolean that names no own property is undefined too.
RECURSIVE Lookup(_, _)
Lookup(entries, key) ==
    IF entries = <<>> THEN Undef
    ELSE IF entries[1].k = key THEN entries[1].v
    ELSE Lookup(Tail(entries), key)

GetProp(v, key) == IF v.t = "obj" THEN Lookup(v.o, key) ELSE Undef

HasKey(entries, key) == \E i \in 1..Len(entries) : entries[i].k = key

\* obj[key] = val on an object's entry list: an existing key keeps its place.
SetProp(entries, key, val) ==
    IF HasKey(entries, key)
    THEN [i \in 1..Len(entries) |-> IF entries[i].k = key THEN Entry(key, val) ELSE entries[i]]
    ELSE Append(entries, Entry(key, val))

(***************************************************************************)
(* Characters and numbers as text.                                         *)
(***************************************************************************)
QUOTE == "\""
BSLASH == "\\"
NEWLINE == "\n"
DigitChars == <<"0", "1", "2", "3", "4", "5", "6", "7", "8", "9">>
IsDigit(c) == \E i \in 1..10 : DigitChars[i] = c
DigitVal(c) == (CHOOSE i \in 1..10 : DigitChars[i] = c) - 1

RECURSIVE Digits(_)
Digits(k) == IF k < 10 THEN <<DigitChars[k + 1]>> ELSE Digits(k \div 10) \o <<DigitChars[(k % 10) + 1]>>

RECURSIVE Flatten(_)
Flatten(seqs) == IF seqs = <<>> THEN <<>> ELSE seqs[1] \o Flatten(Tail(seqs))

RECURSIVE Join(_, _)
Join(seqs, sep) ==
    IF seqs = <<>> THEN <<>>
    ELSE IF Len(seqs) = 1 THEN seqs[1]
    ELSE seqs[1] \o sep \o Join(Tail(seqs), sep)

StartsWith(text, prefix) == Len(text) >= Len(prefix) /\ SubSeq(text, 1, Len(prefix)) = prefix
Drop(text, k) == SubSeq(text, k + 1, Len(text))

\* String(v), the conversion String.prototype.replace and template literals
\* apply to a value that is not a string.
RECURSIVE JSToString(_)
JSToString(v) ==
    CASE v.t = "str" -> v.s
      [] v.t = "num" -> Digits(v.n)
      [] v.t = "bool" -> IF v.n = 1 THEN <<"t", "r", "u", "e">> ELSE <<"f", "a", "l", "s", "e">>
      [] v.t = "null" -> <<"n", "u", "l", "l">>
      [] v.t = "undef" -> <<"u", "n", "d", "e", "f", "i", "n", "e", "d">>
      [] v.t = "obj" -> <<"[", "o", "b", "j", "e", "c", "t", " ", "O", "b", "j", "e", "c", "t", "]">>
      [] v.t = "arr" ->
            Join([i \in 1..Len(v.o) |->
                    IF v.o[i].v.t \in {"null", "undef"} THEN <<>> ELSE JSToString(v.o[i].v)], <<",">>)
      [] OTHER -> <<"f", "n">>

(***************************************************************************)
(* JSON.stringify and JSON.parse.                                          *)
(***************************************************************************)
\* EscapeChar without the escapes: every character is written as it is.
EscapeCharNone(c) == <<c>>

\* The escapes JSON.stringify writes inside a string literal.
EscapeChar(c) ==
    IF c = QUOTE THEN <<BSLASH, QUOTE>>
    ELSE IF c = BSLASH THEN <<BSLASH, BSLASH>>
    ELSE IF c = NEWLINE THEN <<BSLASH, "n">>
    ELSE <<c>>

Quoted(chars) == <<QUOTE>> \o Flatten([i \in 1..Len(chars) |-> EscapeChar(chars[i])]) \o <<QUOTE>>

\* The entries JSON.stringify keeps: a property whose value is undefined or a
\* function is left out.
RECURSIVE Kept(_)
Kept(entries) ==
    IF entries = <<>> THEN <<>>
    ELSE IF entries[1].v.t \in {"undef", "fn"} THEN Kept(Tail(entries))
    ELSE <<entries[1]>> \o Kept(Tail(entries))

RECURSIVE JSONStringify(_)
JSONStringify(v) ==
    CASE v.t = "str" -> Quoted(v.s)
      [] v.t = "num" -> Digits(v.n)
      [] v.t = "bool" -> JSToString(v)
      [] v.t = "obj" ->
            LET es == Kept(v.o)
            IN <<"{">> \o Join([i \in 1..Len(es) |-> Quoted(es[i].k) \o <<":">> \o JSONStringify(es[i].v)], <<",">>) \o <<"}">>
      [] v.t = "arr" ->
            <<"[">> \o Join([i \in 1..Len(v.o) |->
                    IF v.o[i].v.t \in {"undef", "fn"} THEN JSToString(Null) ELSE JSONStringify(v.o[i].v)], <<",">>) \o <<"]">>
      [] OTHER -> JSToString(Null)

\* A parse result: ok, the value read, and the text after it.
ParseFail == [ok |-> FALSE, v |-> Undef, rest |-> <<>>]
ParseOk(val, rest) == [ok |-> TRUE, v |-> val, rest |-> rest]

\* The character an escape sequence \c stands for inside a JSON string
\* literal; <<>> when \c is no escape.  (\uXXXX is not in the alphabet used.)
Unescape(c) ==
    IF c = QUOTE THEN <<QUOTE>>
    ELSE IF c = BSLASH THEN <<BSLASH>>
    ELSE IF c = "/" THEN <<"/">>
    ELSE IF c = "n" THEN <<NEWLINE>>
    ELSE <<>>

\* The rest of a string literal, after its opening quote.
RECURSIVE ParseChars(_, _)
ParseChars(text, acc) ==
    IF text = <<>> THEN ParseFail
    ELSE IF text[1] = QUOTE THEN ParseOk(Str(acc), Tail(text))
    ELSE IF text[1] = NEWLINE THEN ParseFail
    ELSE IF text[1] = BSLASH THEN
        IF Len(text) < 2 \/ Unescape(text[2]) = <<>> THEN ParseFail
        ELSE ParseChars(Drop(text, 2), acc \o Unescape(text[2]))
    ELSE ParseChars(Tail(text), Append(acc, text[1]))

RECURSIVE ParseDigits(_, _)
ParseDigits(text, acc) ==
    IF text # <<>> /\ IsDigit(text[1]) THEN ParseDigits(Tail(text), 10 * acc + DigitVal(text[1]))
    ELSE ParseOk(Num(acc), text)

\* JSON white space between tokens (of the characters used: space, line feed).
RECURSIVE SkipWs(_)
SkipWs(text) == IF text # <<>> /\ text[1] \in {" ", NEWLINE} THEN SkipWs(Tail(text)) ELSE text

Skipped(r) == IF r.ok THEN [r EXCEPT !.rest = SkipWs(r.rest)] ELSE r

RECURSIVE ParseValue(_)
RECURSIVE ParseMembers(_, _)
RECURSIVE ParseElements(_, _)

\* One JSON value, with the white space around it.  Numbers are the
\* non-negative integers (no sign, fraction or exponent).
ParseValue(raw) ==
    LET text == SkipWs(raw)
    IN IF text = <<>> THEN ParseFail
       ELSE IF text[1] = QUOTE THEN Skipped(ParseChars(Tail(text), <<>>))
       ELSE IF text[1] = "0" THEN ParseOk(Num(0), SkipWs(Tail(text)))
       ELSE IF IsDigit(text[1]) THEN Skipped(ParseDigits(text, 0))
       ELSE IF StartsWith(text, JSToString(Bool(TRUE))) THEN ParseOk(Bool(TRUE), SkipWs(Drop(text, 4)))
       ELSE IF StartsWith(text, JSToString(Bool(FALSE))) THEN ParseOk(Bool(FALSE), SkipWs(Drop(text, 5)))
       ELSE IF StartsWith(text, JSToString(Null)) THEN ParseOk(Null, SkipWs(Drop(text, 4)))
       ELSE IF text[1] = "{" THEN
           LET inner == SkipWs(Tail(text))
           IN IF inner # <<>> /\ inner[1] = "}" THEN ParseOk(Obj(<<>>), SkipWs(Tail(inner)))
              ELSE ParseMembers(inner, <<>>)
       ELSE IF text[1] = "[" THEN
           LET inner == SkipWs(Tail(text))
           IN IF inner # <<>> /\ inner[1] = "]" THEN ParseOk(Arr(<<>>), SkipWs(Tail(inner)))
              ELSE ParseElements(inner, <<>>)
       ELSE ParseFail

\* "key":value pairs up to the closing brace; a repeated key overwrites.
ParseMembers(raw, acc) ==
    LET text == SkipWs(raw)
    IN IF text = <<>> \/ text[1] # QUOTE THEN ParseFail
       ELSE LET key == Skipped(ParseChars(Tail(text), <<>>))
            IN IF ~key.ok \/ key.rest = <<>> \/ key.rest[1] # ":" THEN ParseFail
               ELSE LET val == ParseValue(Tail(key.rest))
                    IN IF ~val.ok \/ val.rest = <<>> THEN ParseFail
                       ELSE IF val.rest[1] = "," THEN ParseMembers(Tail(val.rest), SetProp(acc, key.v.s, val.v))
                       ELSE IF val.rest[1] = "}" THEN ParseOk(Obj(SetProp(acc, key.v.s, val.v)), SkipWs(Tail(val.rest)))
                       ELSE ParseFail

ParseElements(text, acc) ==
    LET val == ParseValue(text)
    IN IF ~val.ok \/ val.rest = <<>> THEN ParseFail
       ELSE IF val.rest[1] = "," THEN ParseElements(Tail(val.rest), Append(acc, Entry(<<>>, val.v)))
       ELSE IF val.rest[1] = "]" THEN ParseOk([Obj(Append(acc, Entry(<<>>, val.v))) EXCEPT !.t = "arr"], SkipWs(Tail(val.rest)))
       ELSE ParseFail

\* JSON.parse(text): ok is FALSE where JSON.parse throws a SyntaxError.
JSONParse(text) ==
    LET r == ParseValue(text)
    IN IF r.ok /\ r.rest = <<>> THEN r ELSE ParseFail

(***************************************************************************)
(* prepareRequestBody: template substitution and body encoding.            *)
(***************************************************************************)
\* The literal text that opens a placeholder, and the one that closes it.
PlaceholderOpen == <<"$", "{", "s", "t", "o", "r", "e", "d", ".">>
PlaceholderClose == "}"
Placeholder(key) == PlaceholderOpen \o key \o <<PlaceholderClose>>

\* The index of the character that ends the lazy group (.*?) followed by the
\* closing brace: the first closing brace, unless a line terminator (which
\* `.` does not match) comes before it; 0 when the pattern does not match.
RECURSIVE CloseIndex(_, _)
CloseIndex(text, i) ==
    IF i > Len(text) \/ text[i] = NEWLINE THEN 0
    ELSE IF text[i] = PlaceholderClose THEN i
    ELSE CloseIndex(text, i + 1)

\* ReplaceStored without the own-property test: a key that is not stored is
\* replaced by the text of undefined.
RECURSIVE ReplaceStoredUnchecked(_, _)
ReplaceStoredUnchecked(text, stored) ==
    IF text = <<>> THEN [threw |-> FALSE, out |-> <<>>]
    ELSE LET after == Drop(text, Len(PlaceholderOpen))
             j == CloseIndex(after, 1)
         IN IF StartsWith(text, PlaceholderOpen) /\ j > 0
            THEN LET key == SubSeq(after, 1, j - 1)
                     more == ReplaceStoredUnchecked(Drop(after, j), stored)
                 IN [threw |-> FALSE,
                     out |-> JSToString(IF key \in DOMAIN stored THEN stored[key] ELSE Undef) \o more.out]
            ELSE [threw |-> FALSE, out |-> <<text[1]>> \o ReplaceStoredUnchecked(Tail(text), stored).out]

\* text.replace(/\${stored\.(.*?)}/g, replacer): matches are found left to
\* right and the replacement text is not scanned again.  The replacer throws
\* for a key that is no own property of storedData, which ends the whole call;
\* the value it returns is converted with String().
RECURSIVE ReplaceStored(_, _)
ReplaceStored(text, stored) ==
    IF text = <<>> THEN [threw |-> FALSE, out |-> <<>>]
    ELSE LET after == Drop(text, Len(PlaceholderOpen))
             j == CloseIndex(after, 1)
         IN IF StartsWith(text, PlaceholderOpen) /\ j > 0
            THEN LET key == SubSeq(after, 1, j - 1)
                 IN IF key \notin DOMAIN stored THEN [threw |-> TRUE, out |-> <<>>]
                    ELSE LET more == ReplaceStored(Drop(after, j), stored)
                         IN IF more.threw THEN more
                            ELSE [threw |-> FALSE, out |-> JSToString(stored[key]) \o more.out]
            ELSE LET more == ReplaceStored(Tail(text), stored)
                 IN IF more.threw THEN more
                    ELSE [threw |-> FALSE, out |-> <<text[1]>> \o more.out]

\* TRUE when the pattern matches somewhere in the text.
RECURSIVE HasPlaceholder(_)
HasPlaceholder(text) ==
    IF text = <<>> THEN FALSE
    ELSE (StartsWith(text, PlaceholderOpen) /\ CloseIndex(Drop(text, Len(PlaceholderOpen)), 1) > 0)
         \/ HasPlaceholder(Tail(text))

\* encodeURIComponent on one character: the unreserved characters stay, the
\* others become the percent-encoding of their code.
PercentCodes ==
    << <<QUOTE, <<"%", "2", "2">> >>, <<BSLASH, <<"%", "5", "C">> >>, <<NEWLINE, <<"%", "0", "A">> >>,
       <<" ", <<"%", "2", "0">> >>, <<"$", <<"%", "2", "4">> >>, <<"{", <<"%", "7", "B">> >>,
       <<"}", <<"%", "7", "D">> >>, <<"[", <<"%", "5", "B">> >>, <<"]", <<"%", "5", "D">> >>,
       <<":", <<"%", "3", "A">> >>, <<",", <<"%", "2", "C">> >>, <<"/", <<"%", "2", "F">> >>,
       <<"=", <<"%", "3", "D">> >>, <<"&", <<"%", "2", "6">> >>, <<"@", <<"%", "4", "0">> >>,
       <<"+", <<"%", "2", "B">> >>, <<"%", <<"%", "2", "5">> >> >>

EncodeChar(c) ==
    IF \E i \in 1..Len(PercentCodes) : PercentCodes[i][1] = c
    THEN PercentCodes[CHOOSE i \in 1..Len(PercentCodes) : PercentCodes[i][1] = c][2]
    ELSE <<c>>

EncodeURIComponent(v) ==
    LET chars == JSToString(v)
    IN Flatten([i \in 1..Len(chars) |-> EncodeChar(chars[i])])

\* Object.entries of an object (of an array: its items under their indices).
ObjectEntries(v) ==
    IF v.t = "arr" THEN [i \in 1..Len(v.o) |-> Entry(Digits(i - 1), v.o[i].v)]
    ELSE IF v.t = "obj" THEN v.o
    ELSE <<>>

\* A prepared body: nothing, a text, or the parts appended to a FormData
\* (file |-> TRUE stands for the contents of open(value.path)).
NoBody == [kind |-> "null", text |-> <<>>, parts |-> <<>>]
TextBody(chars) == [kind |-> "text", text |-> chars, parts |-> <<>>]
FormBody(parts) == [kind |-> "form", text |-> <<>>, parts |-> parts]
Thrown == [threw |-> TRUE, body |-> NoBody]
Prepared(body) == [threw |-> FALSE, body |-> body]

FormPart(e) ==
    IF Truthy(GetProp(e.v, <<"t", "y", "p", "e">>)) /\ GetProp(e.v, <<"t", "y", "p", "e">>) = Str(<<"f", "i", "l", "e">>)
    THEN [k |-> e.k, v |-> GetProp(e.v, <<"p", "a", "t", "h">>), file |-> TRUE]
    ELSE [k |-> e.k, v |-> e.v, file |-> FALSE]

\* JSON.parse(JSON.stringify(content).replace(...)): the substituted copy of
\* the content.  JSON.stringify(undefined) is undefined, and .replace on it
\* throws.
ProcessContent(content, stored) ==
    IF content.t \in {"undef", "fn"} THEN ParseFail
    ELSE LET replaced == ReplaceStored(JSONStringify(content), stored)
         IN IF replaced.threw THEN ParseFail ELSE JSONParse(replaced.out)

\* The switch of prepareRequestBody over the body type: the body built from
\* the processed content, or the error thrown for a type it does not know.
EncodeBody(type, processedContent) ==
    CASE type = "form-data" ->
            Prepared(FormBody([i \in 1..Len(ObjectEntries(processedContent)) |->
                                FormPart(ObjectEntries(processedContent)[i])]))
      [] type = "x-www-form-urlencoded" ->
            Prepared(TextBody(Join([i \in 1..Len(ObjectEntries(processedContent)) |->
                ObjectEntries(processedContent)[i].k \o <<"=">>
                    \o EncodeURIComponent(ObjectEntries(processedContent)[i].v)], <<"&">>)))
      [] type = "raw" -> Prepared(TextBody(JSONStringify(processedContent)))
      [] OTHER -> Thrown

\* The end of prepareRequestBody, with the result of processing the content.
EncodeProcessed(type, processed) ==
    IF processed.ok THEN EncodeBody(type, processed.v) ELSE Thrown

\* prepareRequestBody(bodyConfig, storedData), called with a body descriptor.
\* threw is TRUE where the function rethrows the error it caught.
prepareRequestBody(bodyConfig, stored) ==
    EncodeProcessed(bodyConfig.type, ProcessContent(bodyConfig.content, stored))

(***************************************************************************)
(* The validator table (validators.js).  A validator applied to a value    *)
(* and the second argument returns [threw, ok]: threw where the call       *)
(* raises a TypeError, ok the boolean it returns otherwise.                *)
(***************************************************************************)
Letters == {"a", "b", "c", "d", "e", "f", "g", "h", "i", "j", "k", "l", "m", "n", "o", "p", "q", "r", "s", "t", "u", "v", "w", "x", "y", "z", "A", "B", "C", "D", "E", "F", "G", "H", "I", "J", "K", "L", "M", "N", "O", "P", "Q", "R", "S", "T", "U", "V", "W", "X", "Y", "Z"}
HexLetters == {"a", "b", "c", "d", "e", "f", "A", "B", "C", "D", "E", "F"}
WhiteSpace == {" ", NEWLINE}
IsHex(c) == IsDigit(c) \/ c \in HexLetters

Returned(b) == [threw |-> FALSE, ok |-> b]
Raised == [threw |-> TRUE, ok |-> FALSE]

RECURSIVE Contains(_, _)
Contains(text, part) ==
    StartsWith(text, part) \/ (text # <<>> /\ Contains(Tail(text), part))

\* /^[^\s@]+@[^\s@]+\.[^\s@]+$/ : no white space, exactly one @ with text
\* before it, and a dot after it that has text on both sides.
IsEmail(chars) ==
    /\ \A i \in 1..Len(chars) : chars[i] \notin WhiteSpace
    /\ Cardinality({i \in 1..Len(chars) : chars[i] = "@"}) = 1
    /\ LET at == CHOOSE i \in 1..Len(chars) : chars[i] = "@"
       IN at > 1 /\ \E d \in (at + 2)..(Len(chars) - 1) : chars[d] = "."

\* /^\+?[\d\s\(\)\-]{8,}$/
IsPhone(chars) ==
    LET digits == IF chars # <<>> /\ chars[1] = "+" THEN Tail(chars) ELSE chars
    IN /\ Len(digits) >= 8
       /\ \A i \in 1..Len(digits) : IsDigit(digits[i]) \/ digits[i] \in WhiteSpace \cup {"(", ")", "-"}

\* /^[0-9a-f]{8}-[0-9a-f]{4}-4[0-9a-f]{3}-[89ab][0-9a-f]{3}-[0-9a-f]{12}$/i
IsUuid(chars) ==
    /\ Len(chars) = 36
    /\ \A i \in 1..36 :
          IF i \in {9, 14, 19, 24} THEN chars[i] = "-"
          ELSE IF i = 15 THEN chars[i] = "4"
          ELSE IF i = 20 THEN chars[i] \in {"8", "9", "a", "b", "A", "B"}
          ELSE IsHex(chars[i])

\* Date.parse on the date-only form YYYY-MM-DD (a day every month has).  A
\* text without a digit is no date; other texts are left to the engine and
\* are not among the values modelled.
DateParses(chars) ==
    /\ Len(chars) = 10
    /\ \A i \in 1..10 : IF i \in {5, 8} THEN chars[i] = "-" ELSE IsDigit(chars[i])
    /\ 10 * DigitVal(chars[6]) + DigitVal(chars[7]) \in 1..12
    /\ 10 * DigitVal(chars[9]) + DigitVal(chars[10]) \in 1..28

\* new URL(value) succeeds on an absolute URL: a scheme, a colon, and more.
RECURSIVE SchemeEnd(_, _)
SchemeEnd(chars, i) ==
    IF i > Len(chars) THEN 0
    ELSE IF chars[i] = ":" THEN i
    ELSE IF chars[i] \in Letters \/ IsDigit(chars[i]) \/ chars[i] \in {"+", "-", "."} THEN SchemeEnd(chars, i + 1)
    ELSE 0

IsUrl(chars) ==
    chars # <<>> /\ chars[1] \in Letters /\ SchemeEnd(chars, 2) \in 2..(Len(chars) - 1)

\* new RegExp(pattern).test(value) for the patterns modelled: a literal text,
\* optionally anchored with ^.  RegExp(undefined) is the empty pattern, which
\* matches every text.
RegExpTest(pattern, chars) ==
    LET source == IF pattern.t = "undef" THEN <<>> ELSE JSToString(pattern)
    IN IF source # <<>> /\ source[1] = "^" THEN StartsWith(chars, Tail(source))
       ELSE Contains(chars, source)

\* Array.prototype.includes compares with SameValueZero: objects only by
\* identity, which a parsed value never shares with a configured one.
Includes(items, value) ==
    /\ value.t \notin {"obj", "arr", "fn"}
    /\ \E i \in 1..Len(items) : items[i].v = value

\* The predicate functions a descriptor can name.  The one modelled is the
\* documented example, (value) => value.startsWith('PREFIX_').
PrefixFn == <<"s", "t", "a", "r", "t", "s", "W", "i", "t", "h", "P", "r", "e", "f", "i", "x">>
ApplyFn(name, value) ==
    IF value.t = "str" THEN Returned(StartsWith(value.s, <<"P", "R", "E", "F", "I", "X", "_">>))
    ELSE Raised

ValidatorNames ==
    {"text", "email", "number", "boolean", "date", "url", "array", "object",
     "phone", "uuid", "enum", "regex", "custom"}

\* validators[type](value, arg)
validators(type, value, arg) ==
    CASE type = "text" -> Returned(value.t = "str")
      [] type = "email" -> Returned(IsEmail(JSToString(value)))
      [] type = "number" -> Returned(value.t = "num")
      [] type = "boolean" -> Returned(value.t = "bool")
      [] type = "date" -> Returned(DateParses(JSToString(value)))
      [] type = "url" -> Returned(IsUrl(JSToString(value)))
      [] type = "array" -> Returned(value.t = "arr")
      [] type = "object" -> Returned(value.t = "obj")
      [] type = "phone" -> Returned(IsPhone(JSToString(value)))
      [] type = "uuid" -> Returned(IsUuid(JSToString(value)))
      [] type = "enum" ->
            IF arg.t = "arr" THEN Returned(Includes(arg.o, value))
            ELSE IF arg.t = "str" THEN Returned(Contains(arg.s, JSToString(value)))
            ELSE Raised
      [] type = "regex" -> Returned(RegExpTest(arg, JSToString(value)))
      [] type = "custom" -> IF arg.t = "fn" THEN ApplyFn(arg.s, value) ELSE Raised
      [] OTHER -> Raised

(***************************************************************************)
(* The global configuration.                                               *)
(***************************************************************************)
\* application/json
ApplicationJson ==
        <<"a", "p", "p", "l", "i", "c", "a", "t", "i", "o", "n", "/", "j", "s", "o", "n">>
\* application/x-www-form-urlencoded
UrlEncodedType ==
        <<"a", "p", "p", "l", "i", "c", "a", "t", "i", "o", "n", "/", "x", "-", "w", "w", "w", "-",
          "f", "o", "r", "m", "-", "u", "r", "l", "e", "n", "c", "o", "d", "e", "d">>
\* rate<0.01
RateBelow1 ==
        <<"r", "a", "t", "e", "<", "0", ".", "0", "1">>
\* rate<0.05
RateBelow5 ==
        <<"r", "a", "t", "e", "<", "0", ".", "0", "5">>
\* p(95)<
P95Below ==
        <<"p", "(", "9", "5", ")", "<">>
\* globalConfig.defaultTestConfig
defaultTestConfig ==
    [vus |-> Num(1), duration |-> Str(<<"3", "0", "s">>),
     thresholds |-> <<[metric |-> "http_req_failed", conditions |-> <<RateBelow1>>],
                      [metric |-> "http_req_duration", conditions |-> <<P95Below \o <<"1", "0", "0", "0">> >>]>>]
slowRequestThreshold == 1000
globalConfig ==
    [baseURL |-> "https://uat.openfinance.adcb.com",
     headers |-> ("Accept" :> ApplicationJson),
     slowRequestThreshold |-> slowRequestThreshold,
     contentTypes |-> [json |-> ApplicationJson, urlEncoded |-> UrlEncodedType]]

(***************************************************************************)
(* The endpoint registry.  A descriptor has the fields main.js reads:      *)
(* baseURL ("" when not declared), path, method, headers, body,            *)
(* responseTime (config?.responseTime), expectedStatus, expectedContent    *)
(* and storeResponse, and the fields buildOptions reads: vus, duration and  *)
(* thresholds (of config); an option that is not declared is undefined.    *)
(* The                                                                     *)
(* registry holds getToken and descriptors of the documented shape that    *)
(* use the other features of the runner.                                   *)
(***************************************************************************)
NoBodyConfig == [present |-> FALSE, type |-> "", content |-> Undef, contentType |-> Undef]
BodyConfig(type, content) == [present |-> TRUE, type |-> type, content |-> content, contentType |-> Undef]
NoSchema == [present |-> FALSE, fields |-> <<>>]
Schema(fields) == [present |-> TRUE, fields |-> fields]
NoStore == [present |-> FALSE, pairs |-> <<>>]
Store(pairs) == [present |-> TRUE, pairs |-> pairs]
StorePair(key, path) == [key |-> key, path |-> path]

\* A field-type descriptor: the type and the options declared with it.
Field(name, type) ==
    [field |-> name, type |-> type, values |-> Undef, pattern |-> Undef, validator |-> Undef,
     minLength |-> Undef, maxLength |-> Undef, min |-> Undef, max |-> Undef]

KAccessToken == <<"a", "c", "c", "e", "s", "s", "T", "o", "k", "e", "n">>
KOrderId == <<"o", "r", "d", "e", "r", "I", "d">>
FAccessToken == <<"a", "c", "c", "e", "s", "s", "_", "t", "o", "k", "e", "n">>
FExpiresIn == <<"e", "x", "p", "i", "r", "e", "s", "_", "i", "n">>
FTokenType == <<"t", "o", "k", "e", "n", "_", "t", "y", "p", "e">>
FGrantType == <<"g", "r", "a", "n", "t", "_", "t", "y", "p", "e">>
FId == <<"i", "d">>
FEmail == <<"e", "m", "a", "i", "l">>
FActive == <<"a", "c", "t", "i", "v", "e">>
FName == <<"n", "a", "m", "e">>
FAge == <<"a", "g", "e">>
FRoles == <<"r", "o", "l", "e", "s">>
FMeta == <<"m", "e", "t", "a">>
FCode == <<"c", "o", "d", "e">>
FStatus == <<"s", "t", "a", "t", "u", "s">>
FLabel == <<"l", "a", "b", "e", "l">>
FToken == <<"t", "o", "k", "e", "n">>
FOrder == <<"o", "r", "d", "e", "r">>
FQty == <<"q", "t", "y">>
FPhone == <<"p", "h", "o", "n", "e">>
FSite == <<"s", "i", "t", "e">>
FSince == <<"s", "i", "n", "c", "e">>
FUid == <<"u", "i", "d">>

\* client_credentials
ClientCredentials ==
        <<"c", "l", "i", "e", "n", "t", "_", "c", "r", "e", "d", "e", "n", "t", "i", "a", "l", "s">>
\* Basic secret
BasicAuth ==
        <<"B", "a", "s", "i", "c", " ", "s", "e", "c", "r", "e", "t">>
\* ^CODE_
CodePattern ==
        <<"^", "C", "O", "D", "E", "_">>

endpoints ==
    [getToken |->
        [baseURL |-> "https://test.api.auth.adcb.com", path |-> "/oauth2/token", method |-> "POST",
         headers |-> ("Authorization" :> BasicAuth),
         body |-> BodyConfig("x-www-form-urlencoded", Obj(<<Entry(FGrantType, Str(ClientCredentials))>>)),
         vus |-> Num(2), duration |-> Str(<<"1", "m">>), thresholds |-> <<>>,
         responseTime |-> Undef, expectedStatus |-> Num(200),
         expectedContent |-> Schema(<<
            Field(FAccessToken, "text"),
            Field(FExpiresIn, "number"),
            [Field(FTokenType, "enum") EXCEPT !.values = Arr(<<Str(<<"B", "a", "s", "i", "c">>),
                Str(<<"B", "e", "a", "r", "e", "r">>), Str(<<"J", "W", "T">>)>>)] >>),
         storeResponse |-> Store(<<StorePair(KAccessToken, FAccessToken)>>)],
     createOrder |->
        [baseURL |-> "", path |-> "/orders", method |-> "POST",
         headers |-> <<>>,
         body |-> BodyConfig("raw", Obj(<<Entry(FToken, Str(Placeholder(KAccessToken))),
                                           Entry(FQty, Num(2)), Entry(FActive, Bool(TRUE))>>)),
         vus |-> Undef, duration |-> Undef,
         thresholds |-> <<[metric |-> "http_req_failed", conditions |-> <<RateBelow5>>]>>,
         responseTime |-> Num(500), expectedStatus |-> Num(201),
         expectedContent |-> Schema(<<Field(FId, "number")>>),
         storeResponse |-> Store(<<StorePair(KOrderId, FId)>>)],
     linkOrder |->
        [baseURL |-> "", path |-> "/orders/link", method |-> "PUT",
         headers |-> ("Authorization" :> Placeholder(KAccessToken)),
         body |-> BodyConfig("raw", Obj(<<Entry(FToken, Str(Placeholder(KAccessToken))),
                                           Entry(FMeta, Obj(<<Entry(FOrder, Str(<<"#">> \o Placeholder(KOrderId)))>>))>>)),
         vus |-> Undef, duration |-> Undef, thresholds |-> <<>>,
         responseTime |-> Undef, expectedStatus |-> Undef,
         expectedContent |-> NoSchema,
         storeResponse |-> NoStore],
     getProfile |->
        [baseURL |-> "", path |-> "/profile", method |-> "GET",
         headers |-> <<>>,
         body |-> NoBodyConfig,
         vus |-> Undef, duration |-> Undef, thresholds |-> <<>>,
         responseTime |-> Num(0), expectedStatus |-> Undef,
         expectedContent |-> Schema(<<
            Field(FId, "integer"),
            Field(FEmail, "email"),
            [Field(FName, "text") EXCEPT !.minLength = Num(2), !.maxLength = Num(5)],
            [Field(FAge, "number") EXCEPT !.min = Num(18), !.max = Num(120)],
            Field(FActive, "boolean"),
            Field(FRoles, "array"),
            Field(FMeta, "object") >>),
         storeResponse |-> NoStore],
     getContact |->
        [baseURL |-> "", path |-> "/contact", method |-> "GET",
         headers |-> <<>>,
         body |-> BodyConfig("raw", Obj(<<Entry(FToken, Str(Placeholder(KAccessToken)))>>)),
         vus |-> Undef, duration |-> Undef, thresholds |-> <<>>,
         responseTime |-> Undef, expectedStatus |-> Num(200),
         expectedContent |-> Schema(<<
            Field(FPhone, "phone"),
            Field(FSite, "url"),
            Field(FSince, "date"),
            Field(FUid, "uuid") >>),
         storeResponse |-> NoStore],
     getItem |->
        [baseURL |-> "", path |-> "/item", method |-> "GET",
         headers |-> <<>>,
         body |-> NoBodyConfig,
         vus |-> Undef, duration |-> Undef, thresholds |-> <<>>,
         responseTime |-> Undef, expectedStatus |-> Num(200),
         expectedContent |-> Schema(<<
            [Field(FCode, "regex") EXCEPT !.pattern = Str(CodePattern)],
            [Field(FStatus, "enum") EXCEPT !.values = Arr(<<Str(<<"o", "n">>), Str(<<"o", "f", "f">>)>>)],
            [Field(FLabel, "custom") EXCEPT !.validator = Fn(PrefixFn)] >>),
         storeResponse |-> NoStore],
     findItem |->
        [baseURL |-> "", path |-> "/items", method |-> "GET",
         headers |-> <<>>,
         body |-> NoBodyConfig,
         vus |-> Undef, duration |-> Undef, thresholds |-> <<>>,
         responseTime |-> Undef, expectedStatus |-> Num(200),
         expectedContent |-> Schema(<<
            [Field(FCode, "regex") EXCEPT !.pattern = Str(CodePattern)],
            [Field(FStatus, "enum") EXCEPT !.values = Arr(<<Str(<<"o", "n">>), Str(<<"o", "f", "f">>)>>)] >>),
         storeResponse |-> NoStore],
     upload |->
        [baseURL |-> "", path |-> "/upload", method |-> "POST",
         headers |-> <<>>,
         body |-> BodyConfig("form-data", Obj(<<Entry(FToken, Str(Placeholder(KAccessToken))), Entry(FQty, Num(1))>>)),
         vus |-> Undef, duration |-> Undef, thresholds |-> <<>>,
         responseTime |-> Undef, expectedStatus |-> Undef,
         expectedContent |-> NoSchema,
         storeResponse |-> NoStore],
     legacy |->
        [baseURL |-> "", path |-> "/legacy", method |-> "POST",
         headers |-> <<>>,
         body |-> BodyConfig("json", Obj(<<Entry(FQty, Num(1))>>)),
         vus |-> Undef, duration |-> Undef, thresholds |-> <<>>,
         responseTime |-> Undef, expectedStatus |-> Undef,
         expectedContent |-> NoSchema,
         storeResponse |-> NoStore]]

EndpointNames == DOMAIN endpoints

\* Object.entries(endpoints): the names in the order the registry declares them.
EndpointOrder ==
    <<"getToken", "createOrder", "linkOrder", "getProfile", "getContact", "getItem", "findItem",
      "upload", "legacy">>

\* The text of each name.
EndpointKey ==
    [getToken |-> <<"g", "e", "t", "T", "o", "k", "e", "n">>,
     createOrder |-> <<"c", "r", "e", "a", "t", "e", "O", "r", "d", "e", "r">>,
     linkOrder |-> <<"l", "i", "n", "k", "O", "r", "d", "e", "r">>,
     getProfile |-> <<"g", "e", "t", "P", "r", "o", "f", "i", "l", "e">>,
     getContact |-> <<"g", "e", "t", "C", "o", "n", "t", "a", "c", "t">>,
     getItem |-> <<"g", "e", "t", "I", "t", "e", "m">>,
     findItem |-> <<"f", "i", "n", "d", "I", "t", "e", "m">>,
     upload |-> <<"u", "p", "l", "o", "a", "d">>,
     legacy |-> <<"l", "e", "g", "a", "c", "y">>]

(***************************************************************************)
(* buildOptions and the options of the test.                               *)
(***************************************************************************)
\* String.prototype.split on a one-character separator.
RECURSIVE Split(_, _)
Split(chars, sep) ==
    IF \E i \in 1..Len(chars) : chars[i] = sep
    THEN LET i == CHOOSE i \in 1..Len(chars) : chars[i] = sep /\ \A j \in 1..(i - 1) : chars[j] # sep
         IN <<SubSeq(chars, 1, i - 1)>> \o Split(Drop(chars, i), sep)
    ELSE <<chars>>

\* __ENV.TARGET_ENDPOINTS ? __ENV.TARGET_ENDPOINTS.split(',') : null
NoTargets == [present |-> FALSE, names |-> <<>>]
TargetEndpoints(env) ==
    IF env = <<>> THEN NoTargets ELSE [present |-> TRUE, names |-> Split(env, ",")]

\* EndpointsToRun without the filter.
EndpointsToRunAll(targetEndpoints) == EndpointOrder

\* endpointsToRun: the entries of the registry, filtered by
\* targetEndpoints.includes(key) when there is a target list.
EndpointsToRun(targetEndpoints) ==
    IF targetEndpoints.present
    THEN SelectSeq(EndpointOrder,
                   LAMBDA key : \E i \in 1..Len(targetEndpoints.names) : targetEndpoints.names[i] = EndpointKey[key])
    ELSE EndpointOrder

\* obj[key] = value on an object kept as a function of its keys.
PutKey(obj, key, value) == [k \in DOMAIN obj \cup {key} |-> IF k = key THEN value ELSE obj[k]]

\* The scenario of one endpoint.
ScenarioFor(endpoint, config) ==
    [executor |-> "constant-vus",
     vus |-> IF Truthy(config.vus) THEN config.vus ELSE defaultTestConfig.vus,
     duration |-> IF Truthy(config.duration) THEN config.duration ELSE defaultTestConfig.duration,
     exec |-> "default",
     env |-> [SCENARIO |-> endpoint]]

\* The key of a threshold: the metric, and the endpoint of the tag
\* `${metric}{endpoint:${endpoint}}` ("" for a key without a tag).
ThresholdKey(metric, endpoint) == [metric |-> metric, endpoint |-> endpoint]

\* The forEach over the entries of a thresholds object.
RECURSIVE AddThresholds(_, _, _)
AddThresholds(thresholds, endpoint, entries) ==
    IF entries = <<>> THEN thresholds
    ELSE AddThresholds(PutKey(thresholds, ThresholdKey(entries[1].metric, endpoint), entries[1].conditions),
                       endpoint, Tail(entries))

\* The thresholds one endpoint adds: the one of its response time, when it
\* declares one that is truthy, then those it declares itself.
EndpointThresholds(thresholds, endpoint, config) ==
    AddThresholds(IF Truthy(config.responseTime)
                  THEN PutKey(thresholds, ThresholdKey("http_req_duration", endpoint),
                              <<P95Below \o JSToString(config.responseTime)>>)
                  ELSE thresholds,
                  endpoint, config.thresholds)

\* endpointsToRun.forEach(...)
RECURSIVE ForEachEndpoint(_, _, _)
ForEachEndpoint(scenarios, thresholds, entries) ==
    IF entries = <<>> THEN [scenarios |-> scenarios, thresholds |-> thresholds]
    ELSE ForEachEndpoint(PutKey(scenarios, entries[1], ScenarioFor(entries[1], endpoints[entries[1]])),
                         EndpointThresholds(thresholds, entries[1], endpoints[entries[1]]),
                         Tail(entries))

\* buildOptions(targetEndpoints)
buildOptions(targetEndpoints) ==
    ForEachEndpoint(<<>>, AddThresholds(<<>>, "", defaultTestConfig.thresholds),
                    EndpointsToRun(targetEndpoints))

\* The values of __ENV.TARGET_ENDPOINTS: not set, one name, a name the
\* registry does not hold before one it holds, a name twice, an inherited
\* name, and a list written with a space after the comma.
TargetEnvs ==
    {<<>>,
     <<"g", "e", "t", "T", "o", "k", "e", "n">>,
     <<"n", "o", "p", "e", ",", "g", "e", "t", "I", "t", "e", "m">>,
     <<"c", "r", "e", "a", "t", "e", "O", "r", "d", "e", "r", ",", "g", "e", "t", "T", "o", "k", "e", "n", ",", "g", "e", "t", "T", "o", "k", "e", "n">>,
     <<"c", "o", "n", "s", "t", "r", "u", "c", "t", "o", "r">>,
     <<"u", "p", "l", "o", "a", "d", ",", " ", "l", "e", "g", "a", "c", "y">>}

\* endpoints is an object literal, so endpoints[name] also finds the names it
\* inherits from Object.prototype (constructor, toString, ...): the value is
\* then a function, which is truthy.  The one modelled is constructor.
InheritedNames == {"constructor"}

\* Such a value read as a descriptor: it has none of the fields handleRequest
\* reads, so each is undefined.  path is the text the url template makes of
\* undefined, method the text the transport is handed.
InheritedConfig ==
    [baseURL |-> "", path |-> "undefined", method |-> "undefined",
     headers |-> <<>>,
     body |-> NoBodyConfig,
     vus |-> Undef, duration |-> Undef, thresholds |-> <<>>,
     responseTime |-> Undef, expectedStatus |-> Undef,
     expectedContent |-> NoSchema,
     storeResponse |-> NoStore]

\* endpoints[name] for a name that passes the guard of the default function.
EndpointAt(name) == IF name \in EndpointNames THEN endpoints[name] ELSE InheritedConfig

(***************************************************************************)
(* The responses the transport can return for each endpoint (status and    *)
(* body text), and the durations it can take.                              *)
(***************************************************************************)
\* {"access_token":"T1","expires_in":60,"token_type":"Bearer"}
TokenBody1 ==
        <<"{", QUOTE, "a", "c", "c", "e", "s", "s", "_", "t", "o", "k", "e", "n", QUOTE, ":",
          QUOTE, "T", "1", QUOTE, ",", QUOTE, "e", "x", "p", "i", "r", "e", "s", "_", "i", "n",
          QUOTE, ":", "6", "0", ",", QUOTE, "t", "o", "k", "e", "n", "_", "t", "y", "p", "e",
          QUOTE, ":", QUOTE, "B", "e", "a", "r", "e", "r", QUOTE, "}">>
\* {"access_token":"T2","expires_in":60,"token_type":"Bearer"}
TokenBody2 ==
        <<"{", QUOTE, "a", "c", "c", "e", "s", "s", "_", "t", "o", "k", "e", "n", QUOTE, ":",
          QUOTE, "T", "2", QUOTE, ",", QUOTE, "e", "x", "p", "i", "r", "e", "s", "_", "i", "n",
          QUOTE, ":", "6", "0", ",", QUOTE, "t", "o", "k", "e", "n", "_", "t", "y", "p", "e",
          QUOTE, ":", QUOTE, "B", "e", "a", "r", "e", "r", QUOTE, "}">>
\* {"access_token":"a\"b","expires_in":60,"token_type":"Bearer"}
TokenBodyQuote ==
        <<"{", QUOTE, "a", "c", "c", "e", "s", "s", "_", "t", "o", "k", "e", "n", QUOTE, ":",
          QUOTE, "a", BSLASH, QUOTE, "b", QUOTE, ",", QUOTE, "e", "x", "p", "i", "r", "e", "s",
          "_", "i", "n", QUOTE, ":", "6", "0", ",", QUOTE, "t", "o", "k", "e", "n", "_", "t", "y",
          "p", "e", QUOTE, ":", QUOTE, "B", "e", "a", "r", "e", "r", QUOTE, "}">>
\* {"expires_in":"60","token_type":"MAC"}
TokenBodyNoToken ==
        <<"{", QUOTE, "e", "x", "p", "i", "r", "e", "s", "_", "i", "n", QUOTE, ":", QUOTE, "6",
          "0", QUOTE, ",", QUOTE, "t", "o", "k", "e", "n", "_", "t", "y", "p", "e", QUOTE, ":",
          QUOTE, "M", "A", "C", QUOTE, "}">>
\* oops
NotJson ==
        <<"o", "o", "p", "s">>
\* 
EmptyBody ==
        <<>>
\* {"id":7}
OrderBody ==
        <<"{", QUOTE, "i", "d", QUOTE, ":", "7", "}">>
\* null
NullBody ==
        <<"n", "u", "l", "l">>
\* {}
EmptyObject ==
        <<"{", "}">>
\* {"id":1,"email":"a@b.c","name":"a","age":150,"active":true,"roles":[],"meta":{}}
ProfileBody1 ==
        <<"{", QUOTE, "i", "d", QUOTE, ":", "1", ",", QUOTE, "e", "m", "a", "i", "l", QUOTE, ":",
          QUOTE, "a", "@", "b", ".", "c", QUOTE, ",", QUOTE, "n", "a", "m", "e", QUOTE, ":", QUOTE,
          "a", QUOTE, ",", QUOTE, "a", "g", "e", QUOTE, ":", "1", "5", "0", ",", QUOTE, "a", "c",
          "t", "i", "v", "e", QUOTE, ":", "t", "r", "u", "e", ",", QUOTE, "r", "o", "l", "e", "s",
          QUOTE, ":", "[", "]", ",", QUOTE, "m", "e", "t", "a", QUOTE, ":", "{", "}", "}">>
\* {"id":1,"email":"ab","name":"bob","age":30,"active":1}
ProfileBody2 ==
        <<"{", QUOTE, "i", "d", QUOTE, ":", "1", ",", QUOTE, "e", "m", "a", "i", "l", QUOTE, ":",
          QUOTE, "a", "b", QUOTE, ",", QUOTE, "n", "a", "m", "e", QUOTE, ":", QUOTE, "b", "o", "b",
          QUOTE, ",", QUOTE, "a", "g", "e", QUOTE, ":", "3", "0", ",", QUOTE, "a", "c", "t", "i",
          "v", "e", QUOTE, ":", "1", "}">>
\* { }
SpacedObject ==
        <<"{", " ", "}">>
\* {"phone":"+1 (555) 123-4567","site":"https://a.b","since":"2024-01-21","uid":"550e8400-e29b-41d4-a716-446655440000"}
ContactBody1 ==
        <<"{", QUOTE, "p", "h", "o", "n", "e", QUOTE, ":", QUOTE, "+", "1", " ", "(", "5", "5",
          "5", ")", " ", "1", "2", "3", "-", "4", "5", "6", "7", QUOTE, ",", QUOTE, "s", "i", "t",
          "e", QUOTE, ":", QUOTE, "h", "t", "t", "p", "s", ":", "/", "/", "a", ".", "b", QUOTE,
          ",", QUOTE, "s", "i", "n", "c", "e", QUOTE, ":", QUOTE, "2", "0", "2", "4", "-", "0",
          "1", "-", "2", "1", QUOTE, ",", QUOTE, "u", "i", "d", QUOTE, ":", QUOTE, "5", "5", "0",
          "e", "8", "4", "0", "0", "-", "e", "2", "9", "b", "-", "4", "1", "d", "4", "-", "a", "7",
          "1", "6", "-", "4", "4", "6", "6", "5", "5", "4", "4", "0", "0", "0", "0", QUOTE, "}">>
\* {"phone":"12","site":"ab","since":"soon"}
ContactBody2 ==
        <<"{", QUOTE, "p", "h", "o", "n", "e", QUOTE, ":", QUOTE, "1", "2", QUOTE, ",", QUOTE, "s",
          "i", "t", "e", QUOTE, ":", QUOTE, "a", "b", QUOTE, ",", QUOTE, "s", "i", "n", "c", "e",
          QUOTE, ":", QUOTE, "s", "o", "o", "n", QUOTE, "}">>
\* {"code":"X","status":"on","label":"PREFIX_1"}
ItemBody ==
        <<"{", QUOTE, "c", "o", "d", "e", QUOTE, ":", QUOTE, "X", QUOTE, ",", QUOTE, "s", "t", "a",
          "t", "u", "s", QUOTE, ":", QUOTE, "o", "n", QUOTE, ",", QUOTE, "l", "a", "b", "e", "l",
          QUOTE, ":", QUOTE, "P", "R", "E", "F", "I", "X", "_", "1", QUOTE, "}">>
\* {"code":"X","status":"on"}
FoundBody1 ==
        <<"{", QUOTE, "c", "o", "d", "e", QUOTE, ":", QUOTE, "X", QUOTE, ",", QUOTE, "s", "t", "a",
          "t", "u", "s", QUOTE, ":", QUOTE, "o", "n", QUOTE, "}">>
\* {"code":"CODE_1","status":"up"}
FoundBody2 ==
        <<"{", QUOTE, "c", "o", "d", "e", QUOTE, ":", QUOTE, "C", "O", "D", "E", "_", "1", QUOTE,
          ",", QUOTE, "s", "t", "a", "t", "u", "s", QUOTE, ":", QUOTE, "u", "p", QUOTE, "}">>

Response(status, body) == [status |-> status, body |-> body]

Responses ==
    [getToken |-> {Response(200, TokenBody1), Response(200, TokenBody2), Response(200, TokenBodyQuote),
                   Response(200, TokenBodyNoToken), Response(500, NotJson), Response(401, EmptyBody)},
     createOrder |-> {Response(201, OrderBody), Response(400, NullBody)},
     linkOrder |-> {Response(200, EmptyObject), Response(404, EmptyBody)},
     getProfile |-> {Response(200, ProfileBody1), Response(200, ProfileBody2), Response(404, SpacedObject)},
     getContact |-> {Response(200, ContactBody1), Response(200, ContactBody2)},
     getItem |-> {Response(200, ItemBody), Response(200, EmptyBody)},
     findItem |-> {Response(200, FoundBody1), Response(200, FoundBody2)},
     upload |-> {Response(200, EmptyObject)},
     legacy |-> {Response(200, EmptyObject)}]

\* The responses to a request whose method is the text undefined.
InheritedResponses == {Response(405, EmptyBody), Response(200, EmptyObject)}

\* The durations measured for an endpoint: the threshold it declares (the
\* global one when it declares none) and one millisecond more.
Durations(cfg) ==
    LET limit == IF cfg.responseTime.t = "num" THEN cfg.responseTime.n ELSE slowRequestThreshold
    IN {limit, limit + 1}

\* The first of them alone, for the requests whose timing is not varied.
OnTime(cfg) == {d \in Durations(cfg) : d - 1 \notin Durations(cfg)}

\* The endpoints measured at the threshold only: their responses are drawn
\* for the validation of the content.
OnTimeOnly == {"findItem"}
DurationsOf(name) == IF name \in OnTimeOnly THEN OnTime(endpoints[name]) ELSE Durations(endpoints[name])

(***************************************************************************)
(* parseResponse and validateResponseContent.                              *)
(***************************************************************************)
\* parseResponse(response, endpointConfig).  The handler of a failed
\* response.json() reads endpointConfig.path to build its warning; hasConfig
\* says whether the caller passed endpointConfig.  Without it that read
\* raises a TypeError, which leaves parseResponse.
parseResponse(response, hasConfig) ==
    IF response.body = <<>> THEN [threw |-> FALSE, v |-> Null]
    ELSE LET parsed == JSONParse(response.body)
         IN IF parsed.ok THEN [threw |-> FALSE, v |-> parsed.v]
            ELSE IF hasConfig THEN [threw |-> FALSE, v |-> Null]
            ELSE [threw |-> TRUE, v |-> Null]

\* One entry of a check set.  The label is `${field} is valid` (kind
\* "valid"), `${field} validation` (kind "validation") or one of the fixed
\* labels 'response parsing', 'status is as expected' and 'response time is
\* within limits' (kinds "parsing", "status", "time", with no field).
Check(kind, field, ok) == [kind |-> kind, field |-> field, ok |-> ok]

\* A metric sample: metrics[metric].add(value, tags).
NoTags == [endpoint |-> "", field |-> <<>>, type |-> "", method |-> "", url |-> <<"", "">>, statusCode |-> 0, timestamp |-> 0]
Sample(metric, value, tags) == [metric |-> metric, value |-> value, tags |-> tags]

\* The loop of validateResponseContent over Object.entries(expectedContent).
RECURSIVE ValidateFields(_, _, _, _)
ValidateFields(fields, responseBody, results, samples) ==
    IF fields = <<>> THEN [threw |-> FALSE, results |-> results, samples |-> samples]
    ELSE LET validation == fields[1]
             value == GetProp(responseBody, validation.field)
         IN IF validation.type \notin ValidatorNames
            THEN ValidateFields(Tail(fields), responseBody,
                                Append(results, Check("validation", validation.field, FALSE)), samples)
            ELSE LET isValid == validators(validation.type, value, validation.values)
                 IN IF isValid.threw THEN [threw |-> TRUE, results |-> results, samples |-> samples]
                    ELSE ValidateFields(Tail(fields), responseBody,
                            Append(results, Check("valid", validation.field, isValid.ok)),
                            IF isValid.ok THEN samples
                            ELSE Append(samples, Sample("validation_failures", Num(1),
                                    [NoTags EXCEPT !.field = validation.field, !.type = validation.type])))

\* validateResponseContent(response, expectedContent): it calls
\* parseResponse(response), without the endpoint configuration.
validateResponseContent(response, expectedContent) ==
    LET responseBody == parseResponse(response, FALSE)
    IN IF responseBody.threw THEN [threw |-> TRUE, results |-> <<>>, samples |-> <<>>]
       ELSE IF ~Truthy(responseBody.v)
       THEN [threw |-> FALSE, results |-> <<Check("parsing", <<>>, FALSE)>>, samples |-> <<>>]
       ELSE ValidateFields(expectedContent, responseBody.v, <<>>, <<>>)

(***************************************************************************)
(* handleRequest.                                                          *)
(***************************************************************************)
\* { ...globalConfig.headers, ...endpointConfig.headers }
MergeHeaders(base, over) ==
    [h \in DOMAIN base \cup DOMAIN over |-> IF h \in DOMAIN over THEN over[h] ELSE base[h]]

\* The headers of the request: the merged headers, and the Content-Type the
\* body type sets.
RequestHeaders(cfg) ==
    LET headers == MergeHeaders(globalConfig.headers, cfg.headers)
    IN IF cfg.body.present /\ cfg.body.type = "raw"
       THEN MergeHeaders(headers, "Content-Type" :>
                (IF Truthy(cfg.body.contentType) THEN cfg.body.contentType.s ELSE globalConfig.contentTypes.json))
       ELSE IF cfg.body.present /\ cfg.body.type = "x-www-form-urlencoded"
       THEN MergeHeaders(headers, "Content-Type" :> globalConfig.contentTypes.urlEncoded)
       ELSE headers

\* `${baseURL}${endpointConfig.path}`, kept as the pair of its two parts.
RequestUrl(cfg) == <<IF cfg.baseURL # "" THEN cfg.baseURL ELSE globalConfig.baseURL, cfg.path>>

\* endpointConfig.config?.responseTime || globalConfig.slowRequestThreshold
Threshold(cfg) ==
    IF Truthy(cfg.responseTime) THEN cfg.responseTime.n ELSE globalConfig.slowRequestThreshold

\* IsSlow with the boundary included.
IsSlowInclusive(duration, threshold) == duration >= threshold

\* duration > threshold
IsSlow(duration, threshold) == duration > threshold

\* endpointConfig.expectedStatus || 200
DefaultStatus == 200
ExpectedStatus(cfg) == IF Truthy(cfg.expectedStatus) THEN cfg.expectedStatus.n ELSE DefaultStatus

\* SetStored that builds a new map holding the one key.
SetStoredOnly(stored, key, value) == [k \in {key} |-> value]

\* storedData[key] = value
SetStored(stored, key, value) ==
    [k \in DOMAIN stored \cup {key} |-> IF k = key THEN value ELSE stored[k]]

\* StoreAll that keeps the value a key already has.
RECURSIVE StoreAllKeepFirst(_, _, _)
StoreAllKeepFirst(stored, pairs, responseBody) ==
    IF pairs = <<>> THEN stored
    ELSE StoreAllKeepFirst(IF pairs[1].key \in DOMAIN stored THEN stored
                           ELSE SetStored(stored, pairs[1].key, GetProp(responseBody, pairs[1].path)),
                           Tail(pairs), responseBody)

\* The forEach over Object.entries(endpointConfig.storeResponse).
RECURSIVE StoreAll(_, _, _)
StoreAll(stored, pairs, responseBody) ==
    IF pairs = <<>> THEN stored
    ELSE StoreAll(SetStored(stored, pairs[1].key, GetProp(responseBody, pairs[1].path)), Tail(pairs), responseBody)

\* The store step: storedData after it.
StoreStep(cfg, stored, response) ==
    IF ~cfg.storeResponse.present THEN stored
    ELSE LET responseBody == parseResponse(response, TRUE)
         IN IF ~responseBody.threw /\ Truthy(responseBody.v)
            THEN StoreAll(stored, cfg.storeResponse.pairs, responseBody.v)
            ELSE stored

\* Object.assign(checks, results): an entry with a label already present
\* takes its place, a new one is added at the end.
RECURSIVE AssignChecks(_, _)
AssignChecks(checks, results) ==
    IF results = <<>> THEN checks
    ELSE LET r == results[1]
             same(i) == checks[i].kind = r.kind /\ checks[i].field = r.field
             merged == IF \E i \in 1..Len(checks) : same(i)
                       THEN [i \in 1..Len(checks) |-> IF same(i) THEN r ELSE checks[i]]
                       ELSE Append(checks, r)
         IN AssignChecks(merged, Tail(results))

\* EveryCheck that looks at the first two checks only.
EveryBaseCheck(checks) == \A i \in 1..2 : checks[i].ok

\* Object.values(checks).every(Boolean)
EveryCheck(checks) == \A i \in 1..Len(checks) : checks[i].ok

NoRequest == [method |-> "", url |-> <<"", "">>, headers |-> <<>>, body |-> NoBody]
NoResponse == [status |-> 0, body |-> <<>>]

\* What one iteration did: the phase it ended in ("NoOp", "PrepareFailed",
\* "Threw" for an exception raised after the request was sent, "Reported"),
\* the request sent, the samples added to the metrics in order, the check
\* set built and whether it was submitted with check().
Outcome(endpoint, phase) ==
    [scenario |-> endpoint, phase |-> phase, sent |-> FALSE, request |-> NoRequest,
     prepared |-> NoBody, response |-> NoResponse, duration |-> 0, threshold |-> 0,
     isSlowRequest |-> FALSE, checks |-> <<>>, submitted |-> FALSE, samples |-> <<>>]

\* The samples recorded once the response is in: the duration, the slow
\* classification and, for a slow request, its details.
TimingSamples(endpoint, cfg, response, duration, startTime) ==
    LET tags == [NoTags EXCEPT !.endpoint = endpoint]
        isSlowRequest == IsSlow(duration, Threshold(cfg))
    IN <<Sample("response_time", Num(duration), tags),
         Sample("slow_requests", Bool(isSlowRequest), NoTags)>>
       \o IF isSlowRequest
          THEN <<Sample("slow_request_details", Num(duration),
                    [tags EXCEPT !.method = cfg.method, !.url = RequestUrl(cfg),
                                 !.statusCode = response.status, !.timestamp = startTime])>>
          ELSE <<>>

\* RecordSlow that keeps only the newest record.
RecordSlowOnly(slow, endpoint, cfg, response, duration, startTime) ==
    IF duration > Threshold(cfg)
    THEN <<[endpoint |-> endpoint, duration |-> duration, timestamp |-> startTime,
            method |-> cfg.method, url |-> RequestUrl(cfg), status |-> response.status,
            threshold |-> Threshold(cfg)]>>
    ELSE slow

\* slowRequests after the classification: a slow request appends its record.
RecordSlow(slow, endpoint, cfg, response, duration, startTime) ==
    IF IsSlow(duration, Threshold(cfg))
    THEN Append(slow, [endpoint |-> endpoint, duration |-> duration, timestamp |-> startTime,
                       method |-> cfg.method, url |-> RequestUrl(cfg), status |-> response.status,
                       threshold |-> Threshold(cfg)])
    ELSE slow

\* The two checks every request gets.
BaseChecks(cfg, response, duration) ==
    <<Check("status", <<>>, response.status = ExpectedStatus(cfg)),
      Check("time", <<>>, ~IsSlow(duration, Threshold(cfg)))>>

\* The request handed to http.get (no body) or http.request.
Request(cfg, body) ==
    [method |-> cfg.method, url |-> RequestUrl(cfg), headers |-> RequestHeaders(cfg),
     body |-> IF cfg.method = "GET" THEN NoBody ELSE body]

\* The end of handleRequest, from the checks on: validation is the result of
\* validateResponseContent (no results when no schema is declared).  An
\* exception it raises leaves handleRequest before check() and before the
\* failed-request sample.
Report(received, validation, storedAfter, slowAfter) ==
    IF validation.threw
    THEN [outcome |-> [received EXCEPT !.samples = @ \o validation.samples],
          storedData |-> storedAfter, slowRequests |-> slowAfter]
    ELSE [outcome |-> [received EXCEPT
                        !.phase = "Reported",
                        !.checks = AssignChecks(@, validation.results),
                        !.submitted = TRUE,
                        !.samples = @ \o validation.samples \o
                            <<Sample("failed_requests",
                                     Bool(~EveryCheck(AssignChecks(received.checks, validation.results))), NoTags)>>],
          storedData |-> storedAfter, slowRequests |-> slowAfter]

\* handleRequest from the try block on: prep is the result of preparing the
\* body.  A body that could not be prepared records one failed request and
\* returns; otherwise the request is sent.
AfterPrepare(endpoint, cfg, stored, slow, response, duration, startTime, prep) ==
    IF prep.threw
    THEN [outcome |-> [Outcome(endpoint, "PrepareFailed") EXCEPT
                        !.samples = <<Sample("failed_requests", Num(1), NoTags)>>],
          storedData |-> stored, slowRequests |-> slow]
    ELSE Report([Outcome(endpoint, "Threw") EXCEPT
                    !.sent = TRUE, !.request = Request(cfg, prep.body), !.prepared = prep.body,
                    !.response = response, !.duration = duration, !.threshold = Threshold(cfg),
                    !.isSlowRequest = IsSlow(duration, Threshold(cfg)),
                    !.checks = BaseChecks(cfg, response, duration),
                    !.samples = TimingSamples(endpoint, cfg, response, duration, startTime)],
                IF cfg.expectedContent.present
                THEN validateResponseContent(response, cfg.expectedContent.fields)
                ELSE [threw |-> FALSE, results |-> <<>>, samples |-> <<>>],
                StoreStep(cfg, stored, response),
                RecordSlow(slow, endpoint, cfg, response, duration, startTime))

\* handleRequest(endpoint, endpointConfig) with the response the transport
\* returns, the duration measured and the start time: the outcome, and the
\* values of storedData and slowRequests when it returns or throws.
handleRequest(endpoint, cfg, stored, slow, response, duration, startTime) ==
    AfterPrepare(endpoint, cfg, stored, slow, response, duration, startTime,
                 IF cfg.body.present THEN prepareRequestBody(cfg.body, stored) ELSE Prepared(NoBody))

(***************************************************************************)
(* The run: the module state of main.js and the iterations of the default  *)
(* function.                                                               *)
(***************************************************************************)
VARIABLES
    storedData,     \* key -> value captured from a response
    slowRequests,   \* the Slow Request Records, in the order appended
    iterations,     \* the iterations run so far; it also serves as the clock
    storedBefore,   \* storedData when the last iteration began
    last,           \* what the last iteration did
    targetEndpoints, \* the target list, or null
    options,        \* the scenarios and thresholds buildOptions returned
    started,        \* the scenario that started the last iteration ("" when
                    \* the iteration was run outside the scenarios)
    inFlight,       \* the requests virtual users are waiting for
    content,        \* the content structure handed to the substitution
    processedContent \* what the substitution made of it

vars == <<storedData, slowRequests, iterations, storedBefore, last, targetEndpoints, options, started,
          inFlight, content, processedContent>>

\* The virtual users that run iterations at the same time.
MaxVUs == 2

\* A virtual user blocked in http.get or http.request: the scenario, the
\* body prepared and the start time.  Virtual users hold no other state of
\* their own, so the ones between iterations are not told apart.
Waiting(scenario, prep, startTime) == [scenario |-> scenario, prep |-> prep, startTime |-> startTime]

\* The number of iterations of a run.
MaxIterations == 3

\* The values __ENV.SCENARIO can have besides a registered name: not set, or
\* a name the registry does not hold.
InvalidScenarios == {"", "deleteAll"}

\* processedContent before the substitution has run, and after it: the
\* structure it was handed and the result (ok is FALSE where it threw).
NotProcessed == [applied |-> FALSE, input |-> Undef, ok |-> FALSE, v |-> Undef]
Processed(input, result) == [applied |-> TRUE, input |-> input, ok |-> result.ok, v |-> result.v]

Init ==
    /\ storedData = <<>>
    /\ slowRequests = <<>>
    /\ iterations = 0
    /\ storedBefore = <<>>
    /\ last = Outcome("", "Idle")
    /\ \E env \in TargetEnvs :
          /\ targetEndpoints = TargetEndpoints(env)
          /\ options = buildOptions(TargetEndpoints(env))
    /\ started = ""
    /\ inFlight = {}
    /\ content = Undef
    /\ processedContent = NotProcessed

\* The module state and the record of the iteration after handleRequest.
Commit(done) ==
    /\ storedData' = done.storedData
    /\ slowRequests' = done.slowRequests
    /\ last' = done.outcome

\* default(): the scenario selector names no endpoint.
DefaultInvalid(scenarioEndpoint) ==
    /\ iterations < MaxIterations
    /\ scenarioEndpoint = "" \/ scenarioEndpoint \notin EndpointNames \cup InheritedNames
    /\ iterations' = iterations + 1
    /\ storedBefore' = storedData
    /\ last' = Outcome(scenarioEndpoint, "NoOp")
    /\ started' = ""
    /\ UNCHANGED <<storedData, slowRequests, targetEndpoints, options, inFlight, content, processedContent>>

\* default(): handleRequest(scenarioEndpoint, endpoints[scenarioEndpoint]).
DefaultValid(scenarioEndpoint, response, duration) ==
    /\ iterations < MaxIterations
    /\ scenarioEndpoint # "" /\ scenarioEndpoint \in EndpointNames
    /\ Commit(handleRequest(scenarioEndpoint, endpoints[scenarioEndpoint], storedData, slowRequests,
                             response, duration, iterations))
    /\ iterations' = iterations + 1
    /\ storedBefore' = storedData

\* default(): the selector is a name endpoints inherits, so the guard lets it
\* through and handleRequest runs on the inherited value.  The transport is
\* handed an undefined method: it either rejects it by raising, which leaves
\* the default function before anything is recorded, or sends the request.
DefaultInherited(scenarioEndpoint, accepted, response, duration) ==
    /\ iterations < MaxIterations
    /\ scenarioEndpoint # "" /\ scenarioEndpoint \in InheritedNames
    /\ IF accepted
       THEN Commit(handleRequest(scenarioEndpoint, EndpointAt(scenarioEndpoint), storedData, slowRequests,
                                 response, duration, iterations))
       ELSE Commit([outcome |-> Outcome(scenarioEndpoint, "Threw"),
                    storedData |-> storedData, slowRequests |-> slowRequests])
    /\ iterations' = iterations + 1
    /\ storedBefore' = storedData
    /\ started' = ""
    /\ UNCHANGED <<targetEndpoints, options, inFlight, content, processedContent>>

\* An iteration of a scenario of the options: the runner calls the function
\* its exec names, the default function, with the env of the scenario.
RunScenario(scenario, response, duration) ==
    /\ DefaultValid(options.scenarios[scenario].env.SCENARIO, response, duration)
    /\ started' = scenario
    /\ UNCHANGED <<targetEndpoints, options, inFlight, content, processedContent>>

Next ==
    \/ \E s \in InvalidScenarios : DefaultInvalid(s)
    \/ \E s \in InheritedNames : \E a \in BOOLEAN : \E r \in InheritedResponses :
            \E d \in OnTime(InheritedConfig) : DefaultInherited(s, a, r, d)
    \/ \E x \in DOMAIN options.scenarios :
          \E r \in Responses[options.scenarios[x].env.SCENARIO] :
             \E d \in DurationsOf(options.scenarios[x].env.SCENARIO) : RunScenario(x, r, d)

Spec == Init /\ [][Next]_vars

(***************************************************************************)
(* Virtual users that run handleRequest at the same time on the one        *)
(* storedData and slowRequests of the module.  The statements of           *)
(* handleRequest run without interruption except where it blocks: an       *)
(* iteration is the step up to the call of the transport and the step from *)
(* its return on, and the steps of other virtual users may come between.   *)
(***************************************************************************)
\* handleRequest up to http.get / http.request, prep being the body
\* prepared from storedData as it is now.
SendPrepared(scenario, endpoint, prep) ==
    IF prep.threw
    THEN /\ Commit(AfterPrepare(endpoint, endpoints[endpoint], storedData, slowRequests,
                                NoResponse, 0, iterations, prep))
         /\ storedBefore' = storedData
         /\ started' = scenario
         /\ UNCHANGED inFlight
    ELSE /\ inFlight' = inFlight \cup {Waiting(scenario, prep, iterations)}
         /\ UNCHANGED <<storedData, slowRequests, storedBefore, last, started>>

Send(scenario) ==
    /\ iterations < MaxIterations
    /\ Cardinality(inFlight) < MaxVUs
    /\ SendPrepared(scenario, options.scenarios[scenario].env.SCENARIO,
                 IF endpoints[options.scenarios[scenario].env.SCENARIO].body.present
                    THEN prepareRequestBody(endpoints[options.scenarios[scenario].env.SCENARIO].body, storedData)
                    ELSE Prepared(NoBody))
    /\ iterations' = iterations + 1
    /\ UNCHANGED <<targetEndpoints, options, content, processedContent>>

\* handleRequest from the return of the transport on, with storedData and
\* slowRequests as they are now.
Receive(w, response, duration) ==
    /\ w \in inFlight
    /\ Commit(AfterPrepare(options.scenarios[w.scenario].env.SCENARIO,
                           endpoints[options.scenarios[w.scenario].env.SCENARIO],
                           storedData, slowRequests, response, duration, w.startTime, w.prep))
    /\ inFlight' = inFlight \ {w}
    /\ storedBefore' = storedData
    /\ started' = w.scenario
    /\ UNCHANGED <<iterations, targetEndpoints, options, content, processedContent>>

\* The run of every scenario of the registry: no target list.
InitConcurrent == Init /\ ~targetEndpoints.present

NextConcurrent ==
    \/ \E x \in DOMAIN options.scenarios : Send(x)
    \/ \E w \in inFlight :
          \E r \in Responses[options.scenarios[w.scenario].env.SCENARIO] :
             Receive(w, r, Threshold(endpoints[options.scenarios[w.scenario].env.SCENARIO]))

SpecConcurrent == InitConcurrent /\ [][NextConcurrent]_vars

(***************************************************************************)
(* The substitution of prepareRequestBody on its own: the statement        *)
(* JSON.parse(JSON.stringify(content).replace(...)) applied to a content   *)
(* structure and a storedData drawn from bounded sets.                     *)
(***************************************************************************)
\* The longest array and the largest object of the contents drawn.
MaxEntries == 2

\* The values at the leaves: texts with the characters JSON.stringify
\* escapes, texts with parts of the placeholder pattern, a whole placeholder,
\* numbers, booleans and null.
ContentAtoms ==
    {Str(<<>>), Str(<<"a", QUOTE, "b">>), Str(<<BSLASH>>), Str(<<"a", NEWLINE>>),
     Str(<<"$", "{", "x", "}">>), Str(PlaceholderOpen \o <<"k">>), Str(<<"}">>),
     Str(Placeholder(<<"k">>)), Str(PlaceholderOpen \o <<NEWLINE, "}">>),
     Num(0), Num(42), Bool(TRUE), Bool(FALSE), Null}

\* The property name at position i of an object drawn.
ContentKey(i) == <<"k">> \o Digits(i)

AtomLists == UNION {[1..n -> ContentAtoms] : n \in 0..MaxEntries}
KeyedEntries(items) == [i \in 1..Len(items) |-> Entry(ContentKey(i), items[i])]
FlatContents == {Arr(items) : items \in AtomLists} \cup {Obj(KeyedEntries(items)) : items \in AtomLists}
InnerContents ==
    {Arr(<<a>>) : a \in ContentAtoms} \cup {Obj(KeyedEntries(<<a>>)) : a \in ContentAtoms}
        \cup {Arr(<<>>), Obj(<<>>)}
NestedContents ==
    {Arr(<<c>>) : c \in InnerContents} \cup {Obj(<<Entry(<<"i", "n">>, c)>>) : c \in InnerContents}

\* A body content with every kind of value in it and no placeholder.
MixedContent ==
    Obj(<<Entry(<<"i", "d">>, Num(42)), Entry(<<"o", "k">>, Bool(TRUE)),
          Entry(<<"t">>, Arr(<<Str(<<"a", QUOTE, "b">>), Str(<<BSLASH>>), Null>>))>>)

Contents == ContentAtoms \cup FlatContents \cup NestedContents \cup {MixedContent}

\* The storedData the substitution is run with: empty, with the key of the
\* placeholder, and with a key that spans two string literals.
StoredMaps ==
    {<<>>, (<<"k">> :> Str(<<"v">>)),
     (<<"k">> :> Num(7)) @@ (<<"k", QUOTE, ",", QUOTE>> :> Str(<<"z">>))}

InitSubstitution ==
    /\ storedData \in StoredMaps
    /\ content \in Contents
    /\ processedContent = NotProcessed
    /\ slowRequests = <<>>
    /\ iterations = 0
    /\ storedBefore = storedData
    /\ last = Outcome("", "Idle")
    /\ targetEndpoints = NoTargets
    /\ options = buildOptions(NoTargets)
    /\ started = ""
    /\ inFlight = {}

\* let processedContent = JSON.parse(JSON.stringify(content).replace(...)):
\* neither call writes to content or to storedData.
Substitute ==
    /\ ~processedContent.applied
    /\ processedContent' = Processed(content, ProcessContent(content, storedData))
    /\ UNCHANGED <<content, storedData, slowRequests, iterations, storedBefore, last, targetEndpoints,
                   options, started, inFlight>>

NextSubstitution == Substitute

SpecSubstitution == InitSubstitution /\ [][NextSubstitution]_vars

(***************************************************************************)
(* Vocabulary of the properties.  These definitions describe the last      *)
(* iteration from outside: they use the registry and the recorded outcome, *)
(* not the operators of the pipeline.                                      *)
(***************************************************************************)
\* The keys a placeholder of the registry can name.
KnownKeys == {KAccessToken, KOrderId}

\* The last iteration ran handleRequest for a registered endpoint.
Invoked == last.phase \in {"PrepareFailed", "Threw", "Reported"}
LastConfig == EndpointAt(last.scenario)

\* A string somewhere in the value holds the placeholder of the key.
RECURSIVE RefersTo(_, _)
RefersTo(v, key) ==
    CASE v.t = "str" -> Contains(v.s, Placeholder(key))
      [] v.t \in {"obj", "arr"} ->
            \E i \in 1..Len(v.o) : Contains(v.o[i].k, Placeholder(key)) \/ RefersTo(v.o[i].v, key)
      [] OTHER -> FALSE

\* The keys the body of the last invocation's endpoint refers to.
BodyKeys == IF LastConfig.body.present THEN {k \in KnownKeys : RefersTo(LastConfig.body.content, k)} ELSE {}

\* The samples of one metric among those the last iteration recorded.
SamplesOf(metric) == SelectSeq(last.samples, LAMBDA x : x.metric = metric)

\* The response payload of the last invocation is valid JSON.
PayloadIsJson == last.response.body # <<>> /\ JSONParse(last.response.body).ok
\* It parsed into a value the runner can read fields from.
PayloadParsed == PayloadIsJson /\ Truthy(JSONParse(last.response.body).v)
ParsedPayload == JSONParse(last.response.body).v

(***************************************************************************)
(* C1: an invocation whose body refers to ${stored.KEY} with KEY absent    *)
(* from Stored Data (other placeholders of the body may be present) fails  *)
(* body preparation as a whole: no request is sent, no body is produced,   *)
(* exactly one failed-request sample, of value 1, is recorded and nothing  *)
(* else, and the invocation ends in Preparing.                             *)
(***************************************************************************)
C1_MissingKeyAbortsPreparation ==
    (Invoked /\ \E k \in BodyKeys : k \notin DOMAIN storedBefore)
        => /\ last.phase = "PrepareFailed"
           /\ ~last.sent
           /\ last.prepared = NoBody
           /\ last.samples = <<Sample("failed_requests", Num(1), NoTags)>>
           /\ ~last.submitted
           /\ storedData = storedBefore

\* The body names a key that is stored and one that is not, and the
\* invocation was aborted.
C1_Witness ==
    /\ Invoked
    /\ \E k \in BodyKeys : k \notin DOMAIN storedBefore
    /\ \E k \in BodyKeys : k \in DOMAIN storedBefore
    /\ last.phase = "PrepareFailed"

(***************************************************************************)
(* C2: once a store step has written storedData[K], every later invocation *)
(* whose body holds ${stored.K} sends a body in which each occurrence is   *)
(* replaced by the string form of the value last written, and no body      *)
(* sent still holds a placeholder.  (An endpoint whose method is GET sends *)
(* no body and is left out.)                                               *)
(***************************************************************************)
\* The text with every placeholder of a stored key replaced by the string
\* form of the value stored.
RECURSIVE SubstitutedText(_, _)
SubstitutedText(chars, stored) ==
    IF chars = <<>> THEN <<>>
    ELSE IF \E k \in DOMAIN stored : StartsWith(chars, Placeholder(k))
    THEN LET k == CHOOSE k \in DOMAIN stored : StartsWith(chars, Placeholder(k))
         IN JSToString(stored[k]) \o SubstitutedText(Drop(chars, Len(Placeholder(k))), stored)
    ELSE <<chars[1]>> \o SubstitutedText(Tail(chars), stored)

\* The content with every string in it substituted.
RECURSIVE SubstitutedValue(_, _)
SubstitutedValue(v, stored) ==
    CASE v.t = "str" -> Str(SubstitutedText(v.s, stored))
      [] v.t \in {"obj", "arr"} ->
            [v EXCEPT !.o = [i \in 1..Len(v.o) |->
                Entry(SubstitutedText(v.o[i].k, stored), SubstitutedValue(v.o[i].v, stored))]]
      [] OTHER -> v

BodyHoldsPlaceholder(body) ==
    \/ HasPlaceholder(body.text)
    \/ \E i \in 1..Len(body.parts) : \E k \in KnownKeys : RefersTo(body.parts[i].v, k)

C2_StoreThenSubstitute ==
    /\ (Invoked /\ LastConfig.method # "GET" /\ BodyKeys # {} /\ BodyKeys \subseteq DOMAIN storedBefore)
          => /\ last.sent
             /\ Prepared(last.request.body)
                  = EncodeBody(LastConfig.body.type, SubstitutedValue(LastConfig.body.content, storedBefore))
    /\ (Invoked /\ last.sent) => ~BodyHoldsPlaceholder(last.request.body)

(***************************************************************************)
(* C3: for an endpoint that declares an expected-content schema, a         *)
(* response payload that cannot be parsed (empty, or not valid JSON) makes *)
(* the Response Validator return exactly {"response parsing": false}, and  *)
(* the invocation still submits its checks and records a failed-request    *)
(* sample of true.                                                         *)
(***************************************************************************)
C3_UnparseablePayloadIsOneFailedCheck ==
    (Invoked /\ last.sent /\ LastConfig.expectedContent.present /\ ~PayloadIsJson)
        => /\ last.phase = "Reported"
           /\ last.submitted
           /\ SubSeq(last.checks, 3, Len(last.checks)) = <<Check("parsing", <<>>, FALSE)>>
           /\ SamplesOf("failed_requests") = <<Sample("failed_requests", Bool(TRUE), NoTags)>>

(***************************************************************************)
(* C4: only a body-preparation error ends an invocation early: an          *)
(* invocation that has sent its request reaches Reported, that is, it      *)
(* submits its check set and records its failed-request sample, whatever   *)
(* the descriptor and the response.                                        *)
(***************************************************************************)
C4_SentInvocationIsReported ==
    (Invoked /\ last.sent)
        => /\ last.phase = "Reported"
           /\ last.submitted
           /\ Len(SamplesOf("failed_requests")) = 1

(***************************************************************************)
(* C5: Stored Data is empty at run start and is changed only by the store  *)
(* step of an invocation whose endpoint declares a store-response map and  *)
(* whose response body parsed (into a value the step can read: JSON that   *)
(* is not null, false, 0 or ""); that step sets storedData[localKey] =     *)
(* parsedBody[responseFieldName] for exactly the declared pairs and leaves *)
(* every other key as it was.  Every other iteration (aborted in           *)
(* Preparing, invalid selector, no store-response map, response that does  *)
(* not parse) leaves Stored Data unchanged.                                *)
(***************************************************************************)
DeclaredPairs == LastConfig.storeResponse.pairs
DeclaredKeys == {DeclaredPairs[i].key : i \in 1..Len(DeclaredPairs)}

C5_StoredDataWrittenOnlyByStoreStep ==
    /\ iterations = 0 => DOMAIN storedData = {}
    /\ IF Invoked /\ last.sent /\ LastConfig.storeResponse.present /\ PayloadParsed
       THEN /\ DOMAIN storedData = DOMAIN storedBefore \cup DeclaredKeys
            /\ \A i \in 1..Len(DeclaredPairs) :
                  storedData[DeclaredPairs[i].key] = GetProp(ParsedPayload, DeclaredPairs[i].path)
            /\ \A k \in DOMAIN storedBefore \ DeclaredKeys : storedData[k] = storedBefore[k]
       ELSE storedData = storedBefore

\* A store step wrote its key and left the key of an earlier store step.
C5_Witness ==
    /\ Invoked /\ last.sent /\ LastConfig.storeResponse.present /\ PayloadParsed
    /\ DOMAIN storedBefore \ DeclaredKeys # {}
    /\ \E k \in DeclaredKeys : k \notin DOMAIN storedBefore /\ storedData[k] # Undef

(***************************************************************************)
(* C6: slow-request classification is strict greater-than: a request is    *)
(* classified slow iff its duration d exceeds the threshold T in force; in *)
(* particular d = T is not slow and d = T + 1 is slow.                     *)
(***************************************************************************)
ClassifiedSlow == SamplesOf("slow_requests") = <<Sample("slow_requests", Bool(TRUE), NoTags)>>
ClassifiedNotSlow == SamplesOf("slow_requests") = <<Sample("slow_requests", Bool(FALSE), NoTags)>>

C6_SlowIffDurationExceedsThreshold ==
    (Invoked /\ last.sent)
        => /\ IF last.duration > last.threshold THEN ClassifiedSlow ELSE ClassifiedNotSlow
           /\ last.duration = last.threshold => ClassifiedNotSlow
           /\ last.duration = last.threshold + 1 => ClassifiedSlow

\* A request that took exactly the threshold was not classified slow, after
\* one that took a millisecond more and was.
C6_Witness ==
    /\ Invoked /\ last.sent /\ last.duration = last.threshold /\ ClassifiedNotSlow
    /\ \E i \in 1..Len(slowRequests) : slowRequests[i].duration = slowRequests[i].threshold + 1

(***************************************************************************)
(* C7: the threshold used to classify a request, and written into the Slow *)
(* Request Record, is the endpoint's configured response-time threshold    *)
(* whenever the endpoint declares one, for every declared value including  *)
(* 0, and the global slow-request threshold only when it declares none.    *)
(***************************************************************************)
DeclaredThreshold ==
    IF LastConfig.responseTime.t = "num" THEN LastConfig.responseTime.n ELSE slowRequestThreshold

C7_DeclaredThresholdIsUsed ==
    (Invoked /\ last.sent)
        => /\ last.threshold = DeclaredThreshold
           /\ IF last.duration > DeclaredThreshold THEN ClassifiedSlow ELSE ClassifiedNotSlow
           /\ ClassifiedSlow => slowRequests[Len(slowRequests)].threshold = DeclaredThreshold

(***************************************************************************)
(* C8: the Slow Request Record sequence is append-only: an iteration       *)
(* appends one record iff its request was sent and its check 'response     *)
(* time is within limits' is false, and otherwise leaves the sequence as   *)
(* it was; the records already there are never removed, reordered or       *)
(* modified (so the length is the number of requests classified slow); the *)
(* record carries the endpoint, method, url, status, duration and          *)
(* threshold of the request that produced it.                              *)
(***************************************************************************)
TimeCheckFailed(o) == o.sent /\ \E i \in 1..Len(o.checks) : o.checks[i] = Check("time", <<>>, FALSE)

SlowRecordOf(o, timestamp) ==
    [endpoint |-> o.scenario, duration |-> o.duration, timestamp |-> timestamp,
     method |-> o.request.method, url |-> o.request.url, status |-> o.response.status,
     threshold |-> o.threshold]

C8_SlowRecordsAppendOnly ==
    [][IF TimeCheckFailed(last')
       THEN /\ Len(slowRequests') = Len(slowRequests) + 1
            /\ SubSeq(slowRequests', 1, Len(slowRequests)) = slowRequests
            /\ slowRequests'[Len(slowRequests')]
                 = SlowRecordOf(last', slowRequests'[Len(slowRequests')].timestamp)
            /\ last'.duration > last'.threshold
       ELSE slowRequests' = slowRequests]_vars

\* Two records, the second appended by the last iteration behind the first.
C8_Witness ==
    /\ Len(slowRequests) = 2
    /\ TimeCheckFailed(last)
    /\ slowRequests[2] = SlowRecordOf(last, slowRequests[2].timestamp)
    /\ slowRequests[1].endpoint # slowRequests[2].endpoint

(***************************************************************************)
(* C9: for every reported invocation the failed-request sample equals      *)
(* NOT(every check in the check set is true).  The check set holds 'status *)
(* is as expected' (the status equals the declared expected status, 200    *)
(* when none is declared), 'response time is within limits', and, for a    *)
(* declared schema, one entry per declared field (the single 'response     *)
(* parsing' entry when the payload did not parse).  Hence a status other   *)
(* than the expected one yields 'status is as expected' = false and a      *)
(* failed-request sample of true.                                          *)
(***************************************************************************)
DeclaredStatus ==
    IF LastConfig.expectedStatus.t = "num" THEN LastConfig.expectedStatus.n ELSE 200

SchemaFields == LastConfig.expectedContent.fields

C9_FailureSampleIsNotAllChecks ==
    last.phase = "Reported"
        => /\ last.submitted
           /\ SamplesOf("failed_requests")
                = <<Sample("failed_requests", Bool(\E i \in 1..Len(last.checks) : ~last.checks[i].ok), NoTags)>>
           /\ last.checks[1] = Check("status", <<>>, last.response.status = DeclaredStatus)
           /\ last.checks[2] = Check("time", <<>>, ~ClassifiedSlow)
           /\ Len(last.checks) = 2 + (IF ~LastConfig.expectedContent.present THEN 0
                                      ELSE IF PayloadParsed THEN Len(SchemaFields) ELSE 1)
           /\ (LastConfig.expectedContent.present /\ PayloadParsed)
                => \A i \in 1..Len(SchemaFields) : last.checks[2 + i].field = SchemaFields[i].field
           /\ last.response.status # DeclaredStatus
                => /\ ~last.checks[1].ok
                   /\ SamplesOf("failed_requests") = <<Sample("failed_requests", Bool(TRUE), NoTags)>>

\* A reported invocation that expected 200 and got 404.
C9_Witness ==
    /\ last.phase = "Reported"
    /\ DeclaredStatus = 200 /\ last.response.status = 404
    /\ last.checks[1] = Check("status", <<>>, FALSE)
    /\ SamplesOf("failed_requests") = <<Sample("failed_requests", Bool(TRUE), NoTags)>>

(***************************************************************************)
(* C10: when the response parses, the Response Validator records exactly   *)
(* one boolean result per declared field of the schema; a field whose type *)
(* is not registered is recorded as false and does not stop the validation *)
(* of the fields after it, and the results of the other fields are those   *)
(* the schema without the unregistered fields gives.                       *)
(***************************************************************************)
RegisteredFields == SelectSeq(SchemaFields, LAMBDA f : f.type \in ValidatorNames)
ResultsOfRegistered == SelectSeq(SubSeq(last.checks, 3, Len(last.checks)), LAMBDA c : c.kind = "valid")

C10_OneResultPerDeclaredField ==
    (Invoked /\ last.sent /\ LastConfig.expectedContent.present /\ PayloadParsed)
        => /\ Len(last.checks) = 2 + Len(SchemaFields)
           /\ \A i \in 1..Len(SchemaFields) :
                /\ last.checks[2 + i].field = SchemaFields[i].field
                /\ SchemaFields[i].type \notin ValidatorNames
                     => last.checks[2 + i] = Check("validation", SchemaFields[i].field, FALSE)
           /\ ResultsOfRegistered = ValidateFields(RegisteredFields, ParsedPayload, <<>>, <<>>).results

(***************************************************************************)
(* C11: the Response Validator hands each predicate the type-specific      *)
(* option the field descriptor declares: the result recorded for an enum   *)
(* field is membership of the value in the descriptor's allowed values,    *)
(* for a regex field whether the value matches the descriptor's pattern,   *)
(* for a custom field the boolean the descriptor's predicate function      *)
(* returns for the value.                                                  *)
(***************************************************************************)
OptionTypes == {"enum", "regex", "custom"}

\* The option a descriptor declares for its type.
DeclaredOption(f) ==
    CASE f.type = "enum" -> f.values
      [] f.type = "regex" -> f.pattern
      [] f.type = "custom" -> f.validator
      [] OTHER -> Undef

\* The value the payload of the last invocation holds for a field.
PayloadValue(f) == GetProp(ParsedPayload, f.field)

C11_PredicateGetsDeclaredOption ==
    (Invoked /\ last.sent /\ LastConfig.expectedContent.present /\ PayloadParsed)
        => \A i \in 1..Len(SchemaFields) :
              SchemaFields[i].type \in OptionTypes
                 => \E j \in 1..Len(last.checks) :
                       last.checks[j] = Check("valid", SchemaFields[i].field,
                            validators(SchemaFields[i].type, PayloadValue(SchemaFields[i]),
                                       DeclaredOption(SchemaFields[i])).ok)

(***************************************************************************)
(* C12: when a text field declares minLength/maxLength, or a number field  *)
(* declares min/max, the result recorded for the field is true only if the *)
(* value also satisfies every declared bound: the length of the string is  *)
(* within [minLength, maxLength], the number within [min, max].            *)
(***************************************************************************)
\* The value satisfies the bounds the descriptor declares for its type.
WithinDeclaredBounds(f, v) ==
    /\ (f.type = "text" /\ f.minLength.t = "num") => (v.t = "str" /\ Len(v.s) >= f.minLength.n)
    /\ (f.type = "text" /\ f.maxLength.t = "num") => (v.t = "str" /\ Len(v.s) <= f.maxLength.n)
    /\ (f.type = "number" /\ f.min.t = "num") => (v.t = "num" /\ v.n >= f.min.n)
    /\ (f.type = "number" /\ f.max.t = "num") => (v.t = "num" /\ v.n <= f.max.n)

C12_DeclaredBoundsAreEnforced ==
    (Invoked /\ last.sent /\ LastConfig.expectedContent.present /\ PayloadParsed)
        => \A i \in 1..Len(SchemaFields) :
              Check("valid", SchemaFields[i].field, TRUE) \in {last.checks[j] : j \in 1..Len(last.checks)}
                 => WithinDeclaredBounds(SchemaFields[i], PayloadValue(SchemaFields[i]))

(***************************************************************************)
(* C13: a ${stored.KEY} placeholder may appear in any string value of an   *)
(* endpoint's request data, header values and nested object values         *)
(* included: in the request that is sent every such placeholder, in a      *)
(* header value as well as in the body, has been replaced by the string    *)
(* form of storedData[KEY].                                                *)
(***************************************************************************)
\* The headers the descriptor declares, apart from the one the body type sets.
DeclaredHeaders == DOMAIN LastConfig.headers \ {"Content-Type"}

C13_PlaceholdersReplacedEverywhere ==
    (Invoked /\ last.sent)
        => /\ \A h \in DeclaredHeaders :
                 last.request.headers[h] = SubstitutedText(LastConfig.headers[h], storedBefore)
           /\ \A h \in DOMAIN last.request.headers : ~HasPlaceholder(last.request.headers[h])
           /\ (LastConfig.method # "GET" /\ LastConfig.body.present)
                 => /\ last.request.body
                         = EncodeBody(LastConfig.body.type,
                                      SubstitutedValue(LastConfig.body.content, storedBefore)).body
                    /\ ~BodyHoldsPlaceholder(last.request.body)

(***************************************************************************)
(* C14: an iteration whose scenario selector is missing or names no        *)
(* endpoint of the registry is a no-op: it sends no request, records no    *)
(* metric sample of any kind, leaves Stored Data and the Slow Request      *)
(* Record sequence unchanged, and raises no error to the load engine.      *)
(***************************************************************************)
C14_InvalidSelectorIsNoOp ==
    [][(last'.phase # "Idle" /\ last'.scenario \notin EndpointNames)
          => /\ last'.phase = "NoOp"
             /\ ~last'.sent
             /\ last'.samples = <<>>
             /\ storedData' = storedData
             /\ slowRequests' = slowRequests]_vars

(***************************************************************************)
(* C15: the Scenario/Options Builder emits exactly one scenario per        *)
(* selected endpoint: with a target list L the keys of the scenario map    *)
(* are the registry names that occur in L (a name of L the registry does   *)
(* not hold produces nothing), with no filter they are the whole registry; *)
(* each scenario is tagged with its own endpoint name, so the iteration    *)
(* started for scenario X executes the descriptor registered under X.      *)
(***************************************************************************)
\* The names of the target list.
TargetNames == {targetEndpoints.names[i] : i \in 1..Len(targetEndpoints.names)}

C15_OneScenarioPerSelectedEndpoint ==
    /\ DOMAIN options.scenarios
          = (IF targetEndpoints.present THEN {x \in EndpointNames : EndpointKey[x] \in TargetNames}
             ELSE EndpointNames)
    /\ \A x \in DOMAIN options.scenarios :
          options.scenarios[x].exec = "default" /\ options.scenarios[x].env.SCENARIO = x
    /\ started # ""
          => /\ started \in DOMAIN options.scenarios
             /\ last.scenario = started
             /\ Invoked
             /\ last.sent => /\ last.request.url = RequestUrl(endpoints[started])
                             /\ last.request.method = endpoints[started].method

\* The target list names something the registry does not hold and getItem:
\* getItem is the one scenario, and its iteration ran getItem's descriptor.
C15_Witness ==
    /\ targetEndpoints.present
    /\ \E n \in TargetNames : \A x \in EndpointNames : EndpointKey[x] # n
    /\ DOMAIN options.scenarios = {"getItem"}
    /\ started = "getItem"
    /\ last.sent /\ last.request.url = RequestUrl(endpoints.getItem)

(***************************************************************************)
(* C16: under any interleaving of concurrent invocations that share Stored *)
(* Data, writes are last-writer-wins per key: a store step sets each key   *)
(* it declares to the value of its own response, whatever was written to   *)
(* the key before (so the key holds the value of the store step that       *)
(* executed last for it), and changes no other key, those written by       *)
(* concurrent invocations while it waited included; a step that runs no    *)
(* store step leaves Stored Data as it is.                                 *)
(***************************************************************************)
\* The step completes the invocation that waited as w.
Completes(w) == w \in inFlight /\ w \notin inFlight'

\* The store-response pairs of the invocation, and their keys.
PairsOf(w) == endpoints[options.scenarios[w.scenario].env.SCENARIO].storeResponse.pairs
KeysOf(w) == {PairsOf(w)[i].key : i \in 1..Len(PairsOf(w))}

\* The step runs the store step of w on a response that parsed.
StoresResponse(w) ==
    /\ Completes(w)
    /\ PairsOf(w) # <<>>
    /\ last'.response.body # <<>>
    /\ JSONParse(last'.response.body).ok
    /\ Truthy(JSONParse(last'.response.body).v)

C16_LastWriterWinsPerKey ==
    [][/\ \A w \in inFlight :
             StoresResponse(w)
                => /\ DOMAIN storedData' = DOMAIN storedData \cup KeysOf(w)
                   /\ \A i \in 1..Len(PairsOf(w)) :
                         storedData'[PairsOf(w)[i].key]
                            = GetProp(JSONParse(last'.response.body).v, PairsOf(w)[i].path)
                   /\ \A k \in DOMAIN storedData \ KeysOf(w) : storedData'[k] = storedData[k]
       /\ (\A w \in inFlight : ~StoresResponse(w)) => storedData' = storedData]_vars

\* createOrder was sent with the token T1, getToken of another virtual user
\* stored T2 while it waited, and its store step then wrote orderId and left
\* T2 in place.
C16_Witness ==
    /\ last.scenario = "createOrder" /\ last.phase = "Reported"
    /\ Contains(last.request.body.text, <<"T", "1">>)
    /\ KOrderId \in DOMAIN storedData /\ KOrderId \notin DOMAIN storedBefore
    /\ storedData[KAccessToken] = Str(<<"T", "2">>)

(***************************************************************************)
(* C17: the substitution applied to a JSON content structure whose         *)
(* serialized text has no substring matching the placeholder pattern       *)
(* returns a value deeply equal to the input (numbers and booleans         *)
(* included), whatever storedData holds, and leaves the input structure    *)
(* and storedData as they were.  "No placeholder" is read the way the      *)
(* substitution is defined, on the serialized text.                        *)
(***************************************************************************)
NoPlaceholderIn(c) == ~HasPlaceholder(JSONStringify(c))

NonSlowTwin ==
    handleRequest(last.scenario, LastConfig, storedBefore, SubSeq(slowRequests, 1, Len(slowRequests) - 1),
                  last.response, last.threshold, slowRequests[Len(slowRequests)].timestamp)

\* The check sets agree but for the time check, passed in twinChecks and
\* failed in checks.
SameButTimeCheck(checks, twinChecks) ==
    /\ Len(checks) = Len(twinChecks)
    /\ \A i \in 1..Len(checks) :
          IF twinChecks[i].kind = "time"
          THEN twinChecks[i].ok /\ checks[i] = Check("time", <<>>, FALSE)
          ELSE checks[i] = twinChecks[i]

\* The samples that do not come from the timing or from the verdict.
OtherSamples(samples) ==
    SelectSeq(samples, LAMBDA x : x.metric \notin {"response_time", "slow_requests", "slow_request_details",
                                                   "failed_requests"})

SlowDiffersOnlyInTiming(twin) ==
    /\ storedData = twin.storedData
    /\ slowRequests = Append(twin.slowRequests,
                             SlowRecordOf(last, slowRequests[Len(slowRequests)].timestamp))
    /\ SameButTimeCheck(last.checks, twin.outcome.checks)
    /\ OtherSamples(last.samples) = OtherSamples(twin.outcome.samples)
    /\ ~twin.outcome.isSlowRequest
    /\ last.phase = twin.outcome.phase

C18_SlowInvocationCompletes ==
    (Invoked /\ last.sent /\ ClassifiedSlow)
        => /\ last.samples[1].metric = "response_time"
           /\ last.phase = "Reported" /\ last.submitted
           /\ SamplesOf("failed_requests") = <<Sample("failed_requests", Bool(TRUE), NoTags)>>
           /\ SlowDiffersOnlyInTiming(NonSlowTwin)

(***************************************************************************)
(* C19: every invocation started with a valid scenario selector records    *)
(* exactly one failed-request sample over its lifetime: the value 1 on the *)
(* body-preparation abort path, or NOT(all checks true) at Reported, never *)
(* none and never both.  The abort path records no response-time,          *)
(* slow-request or validation-failure sample and appends no Slow Request   *)
(* Record.                                                                 *)
(***************************************************************************)
ValidSelector == last.scenario # "" /\ last.scenario \in EndpointNames

\* The Slow Request Records of the last iteration (its start time is the
\* clock before it).
RecordsOfLast == SelectSeq(slowRequests, LAMBDA x : x.timestamp = iterations - 1)

C19_ExactlyOneFailedRequestSample ==
    (Invoked /\ ValidSelector)
        => /\ Len(SamplesOf("failed_requests")) = 1
           /\ last.phase \in {"PrepareFailed", "Reported"}
           /\ last.phase = "PrepareFailed"
                => /\ last.samples = <<Sample("failed_requests", Num(1), NoTags)>>
                   /\ ~last.sent
                   /\ RecordsOfLast = <<>>
           /\ last.phase = "Reported"
                => /\ SamplesOf("failed_requests")[1].value = Bool(~(\A i \in 1..Len(last.checks) : last.checks[i].ok))
                   /\ last.samples[Len(last.samples)].metric = "failed_requests"

(***************************************************************************)
(* C20: every value substituted for ${stored.K} in a sent body was present *)
(* under the declared response field in an earlier parsed response; when   *)
(* the response that ran the store step for K did not contain the declared *)
(* field, a later invocation that refers to ${stored.K} fails body         *)
(* preparation as a missing key and sends nothing.  storedData is written  *)
(* by the store step only, with the value read from the parsed response,   *)
(* and a JSON payload holds no undefined: the value stored under K is      *)
(* undefined exactly when the response that stored it had no such field.   *)
(***************************************************************************)
\* The store step that last wrote the key found no such field.
StoredFromAbsentField(k) == k \in DOMAIN storedBefore /\ storedBefore[k].t = "undef"

C20_SubstitutedValuesWerePresent ==
    \A k \in BodyKeys :
        Invoked
            => /\ last.sent => (k \in DOMAIN storedBefore /\ ~StoredFromAbsentField(k))
               /\ StoredFromAbsentField(k) => (last.phase = "PrepareFailed" /\ ~last.sent)

====
